---- MODULE Spec2Model ----
(***************************************************************************)
(* The chat client of frontend-react: the useChat hook (hooks/useChat.ts)  *)
(* together with the HTTP client adapter it calls (services/api.ts).       *)
(* One action per handler or continuation: the code between two awaits     *)
(* runs to completion on the single-threaded event loop, so it is one      *)
(* atomic step; the backend is an opaque process that answers or fails     *)
(* every request that is in flight.                                        *)
(***************************************************************************)
EXTENDS Integers, Sequences, FiniteSets, Bags, TLC

\* ---------------------------------------------------------------- bounds
\* Accepted sendUserMessage calls in one behaviour.
MaxSends == 2
\* Calls of the hook's operations in one behaviour, the accepted sends apart
\* (startNewChat, switchSession, removeSession, refreshSessions, and calls of
\* sendUserMessage that return at the guard).
MaxCalls == 1
\* Progress fetches in flight beyond which no timer fires and no call is made
\* that would issue another.
MaxPolls == 1

\* Requests made through the HTTP client in one run of AuthSpec.
MaxRequests == 2

\* Messages sent from the input box in one run of ConnSpec.
MaxInputSends == 1

\* Calls of checkConnection in one run of ConnSpec: the one at mount and the
\* interval's.
MaxChecks == 2

\* Logouts, and logins after them, in one run of AppSpec.
MaxLogouts == 1
MaxLogins == 1

\* ------------------------------------------------------------- constants
MAX_RETRIES == 2
RETRY_DELAY == 2000

\* JavaScript null / an absent optional field.
Null == "null"

\* Session identifiers the backend hands out, in the order it lists them.
SessionOrder == <<"s1", "s2">>
SessionIds == {SessionOrder[i] : i \in 1..Len(SessionOrder)}

\* workspace_path of a chat response for a session, when it carries one.
WorkspaceOf == [s \in SessionIds |-> IF s = "s1" THEN "w1" ELSE "w2"]
\* workspace_path of a session list entry (an optional field: s2 has none).
ListedWorkspace == [s \in SessionIds |-> IF s = "s1" THEN "w1" ELSE Null]

\* Texts the user submits: characters of a string, blank or not.
Texts == {<<>>, <<" ">>, <<" ", "a", " ">>}

\* ------------------------------------------------------- string helpers
WhiteSpace == {" "}

RECURSIVE TrimStart(_)
TrimStart(s) ==
  IF s # <<>> /\ Head(s) \in WhiteSpace THEN TrimStart(Tail(s)) ELSE s

RECURSIVE TrimEnd(_)
TrimEnd(s) ==
  IF s # <<>> /\ s[Len(s)] \in WhiteSpace THEN TrimEnd(SubSeq(s, 1, Len(s) - 1)) ELSE s

\* String.prototype.trim
Trim(s) == TrimEnd(TrimStart(s))

UpperCase == <<"A", "B", "C", "D", "E", "F", "G", "H", "I", "J", "K", "L", "M",
               "N", "O", "P", "Q", "R", "S", "T", "U", "V", "W", "X", "Y", "Z">>
LowerCase == <<"a", "b", "c", "d", "e", "f", "g", "h", "i", "j", "k", "l", "m",
               "n", "o", "p", "q", "r", "s", "t", "u", "v", "w", "x", "y", "z">>

UpperToLower ==
  [c \in {UpperCase[i] : i \in 1..26} |-> LowerCase[CHOOSE i \in 1..26 : UpperCase[i] = c]]

\* String.prototype.toLowerCase
ToLowerCase(s) ==
  [i \in 1..Len(s) |-> IF s[i] \in DOMAIN UpperToLower THEN UpperToLower[s[i]] ELSE s[i]]

\* String.prototype.includes
Includes(s, sub) ==
  \E i \in 0..(Len(s) - Len(sub)) : SubSeq(s, i + 1, i + Len(sub)) = sub

\* ------------------------------------------------------- request errors
\* The AxiosError values a request can reject with: the HTTP status of the
\* response (0: no response was received) and axios' message text.

ErrorKinds == {"eNetwork", "eTimeout", "e400", "e401", "e500", "e502", "e503", "e504"}

ErrorStatus ==
  [e \in ErrorKinds |->
     CASE e = "eNetwork" -> 0
       [] e = "eTimeout" -> 0
       [] e = "e400" -> 400
       [] e = "e401" -> 401
       [] e = "e500" -> 500
       [] e = "e502" -> 502
       [] e = "e503" -> 503
       [] e = "e504" -> 504]

ErrorMessage ==
  [e \in ErrorKinds |->
     CASE e = "eNetwork" -> "Network Error"
       [] e = "eTimeout" -> "timeout of 7200000ms exceeded"
       [] e = "e400" -> "Request failed with status code 400"
       [] e = "e401" -> "Request failed with status code 401"
       [] e = "e500" -> "Request failed with status code 500"
       [] e = "e502" -> "Request failed with status code 502"
       [] e = "e503" -> "Request failed with status code 503"
       [] e = "e504" -> "Request failed with status code 504"]

\* The characters of ErrorMessage[e].
ErrorMessageChars ==
  [e \in ErrorKinds |->
     CASE e = "eNetwork" ->
            <<"N", "e", "t", "w", "o", "r", "k", " ", "E", "r", "r", "o", "r">>
       [] e = "eTimeout" ->
            <<"t", "i", "m", "e", "o", "u", "t", " ", "o", "f", " ", "7", "2", "0", "0", "0", "0", "0", "m", "s", " ", "e", "x", "c", "e", "e", "d", "e", "d">>
       [] e = "e400" ->
            <<"R", "e", "q", "u", "e", "s", "t", " ", "f", "a", "i", "l", "e", "d", " ", "w", "i", "t", "h", " ", "s", "t", "a", "t", "u", "s", " ", "c", "o", "d", "e", " ", "4", "0", "0">>
       [] e = "e401" ->
            <<"R", "e", "q", "u", "e", "s", "t", " ", "f", "a", "i", "l", "e", "d", " ", "w", "i", "t", "h", " ", "s", "t", "a", "t", "u", "s", " ", "c", "o", "d", "e", " ", "4", "0", "1">>
       [] e = "e500" ->
            <<"R", "e", "q", "u", "e", "s", "t", " ", "f", "a", "i", "l", "e", "d", " ", "w", "i", "t", "h", " ", "s", "t", "a", "t", "u", "s", " ", "c", "o", "d", "e", " ", "5", "0", "0">>
       [] e = "e502" ->
            <<"R", "e", "q", "u", "e", "s", "t", " ", "f", "a", "i", "l", "e", "d", " ", "w", "i", "t", "h", " ", "s", "t", "a", "t", "u", "s", " ", "c", "o", "d", "e", " ", "5", "0", "2">>
       [] e = "e503" ->
            <<"R", "e", "q", "u", "e", "s", "t", " ", "f", "a", "i", "l", "e", "d", " ", "w", "i", "t", "h", " ", "s", "t", "a", "t", "u", "s", " ", "c", "o", "d", "e", " ", "5", "0", "3">>
       [] e = "e504" ->
            <<"R", "e", "q", "u", "e", "s", "t", " ", "f", "a", "i", "l", "e", "d", " ", "w", "i", "t", "h", " ", "s", "t", "a", "t", "u", "s", " ", "c", "o", "d", "e", " ", "5", "0", "4">>]

\* The error banner texts of sendUserMessage's catch block.
MsgTimeout == "Request timed out. Claude Code is still processing - please wait and try again in a moment."
MsgNetwork == "Network error. Please check your connection and try again."
MsgGateway == "Server temporarily unavailable. Please try again in a few seconds."
MsgAuth == "Authentication error. The server may need to re-authenticate with Claude."

\* (the catch block showing err.message as it is)
ClassifyErrorRaw == [e \in ErrorKinds |-> ErrorMessage[e]]

\* (the rules of the catch block with the authentication rule tried first)
ErrorCategoryAuthFirst(message) ==
  IF Includes(message, <<"a", "u", "t", "h", "e", "n", "t", "i", "c", "a", "t", "i", "o", "n">>)
       \/ Includes(message, <<"4", "0", "1">>)
    THEN "auth"
  ELSE IF Includes(message, <<"t", "i", "m", "e", "o", "u", "t">>) THEN "timeout"
  ELSE "raw"

\* The if-chain of sendUserMessage's catch block over the lower-cased
\* err.message: the branch taken.
ErrorCategory(message) ==
  LET kw_timeout == <<"t", "i", "m", "e", "o", "u", "t">>
      kw_econnaborted == <<"e", "c", "o", "n", "n", "a", "b", "o", "r", "t", "e", "d">>
      kw_network == <<"n", "e", "t", "w", "o", "r", "k">>
      kw_econnrefused == <<"e", "c", "o", "n", "n", "r", "e", "f", "u", "s", "e", "d">>
      kw_enotfound == <<"e", "n", "o", "t", "f", "o", "u", "n", "d">>
      kw_502 == <<"5", "0", "2">>
      kw_503 == <<"5", "0", "3">>
      kw_504 == <<"5", "0", "4">>
      kw_authentication == <<"a", "u", "t", "h", "e", "n", "t", "i", "c", "a", "t", "i", "o", "n">>
      kw_401 == <<"4", "0", "1">>
  IN  IF Includes(message, kw_timeout) \/ Includes(message, kw_econnaborted)
        THEN "timeout"
      ELSE IF Includes(message, kw_network) \/ Includes(message, kw_econnrefused)
                \/ Includes(message, kw_enotfound)
        THEN "network"
      ELSE IF Includes(message, kw_502) \/ Includes(message, kw_503)
                \/ Includes(message, kw_504)
        THEN "gateway"
      ELSE IF Includes(message, kw_authentication) \/ Includes(message, kw_401)
        THEN "auth"
      ELSE "raw"

\* The text each branch of the catch block assigns to errorMessage (the last
\* branch assigns err.message).
CategoryText ==
  [c \in {"timeout", "network", "gateway", "auth"} |->
     CASE c = "timeout" -> MsgTimeout
       [] c = "network" -> MsgNetwork
       [] c = "gateway" -> MsgGateway
       [] c = "auth" -> MsgAuth]

\* The catch block of sendUserMessage: the banner text for a rejected chat
\* request (every rejection of api.post is an AxiosError, hence an Error).
ClassifyError ==
  [e \in ErrorKinds |->
     LET category == ErrorCategory(ToLowerCase(ErrorMessageChars[e]))
     IN  IF category = "raw" THEN ErrorMessage[e] ELSE CategoryText[category]]

\* (every failure taken as retryable)
isRetryableErrorAny(e) == TRUE

\* isRetryableError: no response, or a 502/503/504 response.
isRetryableError(e) ==
  IF ErrorStatus[e] = 0 THEN TRUE
  ELSE ErrorStatus[e] = 502 \/ ErrorStatus[e] = 503 \/ ErrorStatus[e] = 504

\* Errors the backend answers a chat request with, and those it answers the
\* other requests with.
ChatErrors == {"e503", "e401"}
OtherErrors == {"eNetwork", "e401"}

\* How the calls of withRetry's operation end, one entry per attempt the loop
\* can make: "ok" (resolved) or the error the call rejects with.
\* Entries after the attempt that ends the loop are never read: they are "ok".
AttemptOutcomes ==
  {o : o \in
     {p \in [1..(MAX_RETRIES + 1) -> {"ok"} \cup ChatErrors] :
        \A i \in 1..MAX_RETRIES :
          (p[i] = "ok" \/ ~isRetryableError(p[i]))
            => \A j \in (i + 1)..(MAX_RETRIES + 1) : p[j] = "ok"}}

\* withRetry, from the iteration `attempt` of its loop on: how the wrapped
\* call ends (result: "ok" or the error thrown), how many times the operation
\* was called, and the delays awaited in between.
RECURSIVE withRetryFrom(_, _)
withRetryFrom(outcomes, attempt) ==
  LET o == outcomes[attempt + 1] IN
  IF o = "ok"
    THEN [result |-> "ok", attempts |-> attempt + 1, delays |-> <<>>]
  ELSE IF isRetryableError(o) /\ attempt < MAX_RETRIES
    THEN LET rest == withRetryFrom(outcomes, attempt + 1)
         IN  [rest EXCEPT !.delays = <<RETRY_DELAY * (attempt + 1)>> \o @]
  ELSE [result |-> o, attempts |-> attempt + 1, delays |-> <<>>]

withRetry == [outcomes \in AttemptOutcomes |-> withRetryFrom(outcomes, 0)]

\* ------------------------------------------------------------- messages
\* A Message. send: the sendUserMessage call that created the object (0: a
\* message of a fetched history); timestamp: whether the field is set.
UserMessage(k, content) ==
  [role |-> "user", content |-> Trim(content), timestamp |-> TRUE,
   isStreaming |-> FALSE, tool_calls |-> <<>>, send |-> k]

AssistantPlaceholder(k) ==
  [role |-> "assistant", content |-> <<>>, timestamp |-> FALSE,
   isStreaming |-> TRUE, tool_calls |-> <<>>, send |-> k]

FinalMessage(k, response) ==
  [role |-> "assistant", content |-> response.response, timestamp |-> TRUE,
   isStreaming |-> FALSE, tool_calls |-> response.tool_calls, send |-> k]

\* The body of a successful chat response to the request of send k.
ChatResponse(k, sid, wp) ==
  [session_id |-> sid, workspace_path |-> wp, response |-> <<"r">>,
   tool_calls |-> <<"t">>, request |-> k]

\* The messages the backend has persisted for a session.
HistoryOf(sid) ==
  << [role |-> "assistant", content |-> <<sid>>, timestamp |-> TRUE,
      isStreaming |-> FALSE, tool_calls |-> <<>>, send |-> 0] >>

\* The list GET /api/sessions answers with when the sessions S exist.
SessionList(S) ==
  LET ids == SelectSeq(SessionOrder, LAMBDA s : s \in S)
  IN  [i \in 1..Len(ids) |-> [id |-> ids[i], workspace_path |-> ListedWorkspace[ids[i]]]]

\* (switchSession without the lookup in the cached list)
FindWorkspaceNone(list, sessionId) == Null

\* sessions.find(s => s.id === sessionId)?.workspace_path
FindWorkspace(list, sessionId) ==
  IF \E i \in 1..Len(list) : list[i].id = sessionId
    THEN list[CHOOSE i \in 1..Len(list) :
                 list[i].id = sessionId /\ \A j \in 1..(i - 1) : list[j].id # sessionId].workspace_path
    ELSE Null

\* ---------------------------------------------------------------- state
VARIABLES
  messages,             \* useState<Message[]>
  sessions,             \* useState<Session[]>: the cached session list
  currentSessionId,     \* useState<string | null>
  workspacePath,        \* useState<string | null>
  isLoading,            \* useState(false)
  progress,             \* useState<ProgressData | null>: its status, or Null
  error,                \* useState<string | null>
  progressIntervalRef,  \* useRef<number | null>: 0 is null
  timers,               \* the interval timers of window.setInterval still live
  token,                \* localStorage holds TOKEN_KEY
  sends,                \* the accepted sendUserMessage calls, in call order
  switches,             \* switchSession calls awaiting their history (a bag)
  removes,              \* removeSession calls not yet returned (a bag)
  refreshes,            \* refreshSessions calls awaiting GET /api/sessions
  polls,                \* progress fetches in flight (a bag)
  srvSessions,          \* the sessions that exist on the backend
  nCalls,               \* calls made so far, the accepted sends apart
  noop,                 \* the operation that just returned at its guard, or ""
  retry,                \* a run of withRetry followed step by step (RetrySpec)
  classify,             \* a run of sendUserMessage's catch block (ClassifySpec)
  auth,                 \* client storage and the requests of the HTTP client (AuthSpec)
  conn,                 \* the connection monitor and the input box (ConnSpec)
  extract,              \* a call of extractFilePaths (ExtractSpec)
  app                   \* App: the user it shows the chat to, logins and logouts (AppSpec)

hookVars == <<messages, sessions, currentSessionId, workspacePath, isLoading, progress, error>>
pollVars == <<progressIntervalRef, timers, progress, polls>>
chatVars == <<messages, sessions, currentSessionId, workspacePath, isLoading, progress, error,
              progressIntervalRef, timers, token, sends, switches, removes,
              refreshes, polls, srvSessions, nCalls, noop>>
vars == <<messages, sessions, currentSessionId, workspacePath, isLoading, progress, error,
          progressIntervalRef, timers, token, sends, switches, removes,
          refreshes, polls, srvSessions, nCalls, noop, retry, classify, auth, conn, extract, app>>
\* The variables of the specifications that follow one function on its own.
sideVars == <<retry, classify, auth, conn, extract, app>>
\* What each of those specifications leaves alone.
retryRest == <<chatVars, classify, auth, conn, extract, app>>
classifyRest == <<chatVars, retry, auth, conn, extract, app>>
authRest == <<chatVars, retry, classify, conn, extract, app>>
connRest == <<chatVars, retry, classify, auth, extract, app>>
extractRest == <<chatVars, retry, classify, auth, conn, app>>

\* No run of withRetry is followed.
RetryIdle ==
  [pc |-> "idle", outcomes |-> <<>>, attempt |-> 0, calls |-> 0, delays |-> <<>>,
   thrown |-> Null, banner |-> Null, request |-> Null, posts |-> <<>>]

\* The HTTP client, the connection monitor and extractFilePaths are not followed.
AuthIdle == [pc |-> "idle"]
ConnIdle == [pc |-> "idle"]
ExtractIdle == [pc |-> "idle"]
AppIdle == [pc |-> "idle"]

\* No run of the catch block is followed.
ClassifyIdle == [pc |-> "idle", isError |-> FALSE, message |-> <<>>, errorMessage |-> Null]

\* (the token test always passing)
isAuthenticatedAlways == TRUE

\* isAuthenticated(): !!localStorage.getItem(TOKEN_KEY)
isAuthenticated == token

\* The response interceptor: a 401 response removes the stored token.
AfterResponseError(e) == IF ErrorStatus[e] = 401 THEN FALSE ELSE token

\* The same over the attempts sendMessage made.
AfterAttempts(outcomes, n) ==
  IF \E i \in 1..n : outcomes[i] # "ok" /\ ErrorStatus[outcomes[i]] = 401 THEN FALSE ELSE token

\* ------------------------------------------------------ progress poller
\* The poller's part of the state, as the record the two operators below
\* transform.
Poller ==
  [ref |-> progressIntervalRef, timers |-> timers, progress |-> progress, polls |-> polls]

SetPoller(p) ==
  /\ progressIntervalRef' = p.ref
  /\ timers' = p.timers
  /\ progress' = p.progress
  /\ polls' = p.polls

\* (stopProgressPolling without the setProgress(null))
stopProgressPollingKeepsProgress(p) ==
  [p EXCEPT !.timers = IF p.ref # 0 THEN {t \in p.timers : t.id # p.ref} ELSE p.timers,
            !.ref = 0]

\* stopProgressPolling: clearInterval of the stored handle, handle := null,
\* setProgress(null).
stopProgressPolling(p) ==
  [p EXCEPT !.timers = IF p.ref # 0 THEN {t \in p.timers : t.id # p.ref} ELSE p.timers,
            !.ref = 0,
            !.progress = Null]

\* (startProgressPolling without the stopProgressPolling call it begins with)
startProgressPollingUncancelled(p, sessionId, handle) ==
  [p EXCEPT !.polls = p.polls (+) SetToBag({[loop |-> handle, sessionId |-> sessionId]}),
            !.timers = p.timers \cup {[id |-> handle, sessionId |-> sessionId]},
            !.ref = handle]

\* (startProgressPolling without its initial poll())
startProgressPollingNoInitialPoll(p, sessionId, handle) ==
  LET q == stopProgressPolling(p)
  IN  [q EXCEPT !.timers = q.timers \cup {[id |-> handle, sessionId |-> sessionId]},
                !.ref = handle]

\* startProgressPolling(sessionId): stop, issue the initial poll, store the
\* handle of a new interval timer. handle: the value setInterval returns.
startProgressPolling(p, sessionId, handle) ==
  LET q == stopProgressPolling(p)
  IN  [q EXCEPT !.polls = q.polls (+) SetToBag({[loop |-> handle, sessionId |-> sessionId]}),
                !.timers = q.timers \cup {[id |-> handle, sessionId |-> sessionId]},
                !.ref = handle]

\* window.setInterval returns a handle no earlier call returned: the n-th
\* (1 or 2) startProgressPolling of send k gets 2k-2+n.
IntervalHandle(k, n) == (k - 1) * 2 + n

PollsInFlight == BagCardinality(polls)

\* ----------------------------------------------------------------- Init
\* The hook after its first render and its mount effects.
ChatMounted ==
  /\ messages = <<>>
  /\ sessions = <<>>
  /\ currentSessionId = Null
  /\ workspacePath = Null
  /\ isLoading = FALSE
  /\ progress = Null
  /\ error = Null
  /\ progressIntervalRef = 0
  /\ timers = {}
  \* a user is logged in
  /\ token = TRUE
  /\ sends = <<>>
  /\ switches = EmptyBag
  /\ removes = EmptyBag
  \* the mount effect has called refreshSessions()
  /\ refreshes = IF token THEN 1 ELSE 0
  /\ polls = EmptyBag
  /\ srvSessions = {SessionOrder[1]}
  /\ nCalls = 0
  /\ noop = ""

Init ==
  /\ ChatMounted
  /\ retry = RetryIdle
  /\ classify = ClassifyIdle
  /\ auth = AuthIdle
  /\ conn = ConnIdle
  /\ extract = ExtractIdle /\ app = AppIdle

\* ------------------------------------------------------ sendUserMessage
\* (the guard with the text tested as typed, not trimmed)
SendAcceptedUntrimmed(content) == ~(content = <<>> \/ isLoading)

\* The guard of sendUserMessage: the call goes on iff this holds.
SendAccepted(content) == ~(Trim(content) = <<>> \/ isLoading)

\* A call that returns at its guard.
ReturnsAtGuard(op) ==
  /\ nCalls < MaxCalls
  /\ nCalls' = nCalls + 1
  /\ noop' = op
  /\ UNCHANGED sideVars
  /\ UNCHANGED <<messages, sessions, currentSessionId, workspacePath, isLoading,
                 progress, error, progressIntervalRef, timers, token, sends, switches, removes, refreshes, polls, srvSessions>>

\* sendUserMessage(content), up to the await of sendMessage.
sendUserMessage(content) ==
  /\ IF ~SendAccepted(content)
       THEN ReturnsAtGuard("sendUserMessage")
       ELSE LET k == Len(sends) + 1 IN
            /\ Len(sends) < MaxSends
            /\ currentSessionId # Null => PollsInFlight < MaxPolls
            /\ error' = Null
            /\ isLoading' = TRUE
            /\ messages' = messages \o <<UserMessage(k, content), AssistantPlaceholder(k)>>
            /\ SetPoller(IF currentSessionId # Null
                           THEN startProgressPolling(Poller, currentSessionId, IntervalHandle(k, 1))
                           ELSE Poller)
            /\ sends' = Append(sends, [pc |-> "post", content |-> content,
                                       message |-> Trim(content),
                                       session_id |-> currentSessionId,
                                       workspace_path |-> workspacePath,
                                       response_id |-> Null, outcome |-> ""])
            /\ noop' = ""
            /\ UNCHANGED sideVars
            /\ UNCHANGED <<sessions, currentSessionId, workspacePath, token, switches, removes, refreshes, srvSessions, nCalls>>

\* The record of a send that has returned; outcome: whether sendMessage
\* resolved ("ok") or rejected ("failed").
Returned(s, outcome) ==
  [s EXCEPT !.pc = "done", !.outcome = outcome, !.session_id = Null,
            !.workspace_path = Null, !.response_id = Null]

\* (the success path's replacement without the isStreaming test)
ReplacePlaceholderUnchecked(msgs, k, response) ==
  IF msgs # <<>> THEN [msgs EXCEPT ![Len(msgs)] = FinalMessage(k, response)] ELSE msgs

\* setMessages of the success path: the trailing placeholder, if it is one,
\* becomes the finalized assistant message.
ReplacePlaceholder(msgs, k, response) ==
  IF msgs # <<>> /\ msgs[Len(msgs)].isStreaming
    THEN [msgs EXCEPT ![Len(msgs)] = FinalMessage(k, response)]
    ELSE msgs

\* (the catch block's pop without the isStreaming test)
RemovePlaceholderUnchecked(msgs) ==
  IF msgs # <<>> THEN SubSeq(msgs, 1, Len(msgs) - 1) ELSE msgs

\* setMessages of the catch block: the trailing placeholder, if it is one,
\* is popped.
RemovePlaceholder(msgs) ==
  IF msgs # <<>> /\ msgs[Len(msgs)].isStreaming
    THEN SubSeq(msgs, 1, Len(msgs) - 1)
    ELSE msgs

\* (the end of the try block comparing the returned id with the session that
\* is current by then, which setCurrentSessionId has made the returned one)
SendTailSameSession(p, k, sid) == stopProgressPolling(p)

\* (the end of the try block without the finally block's stopProgressPolling)
SendTailUnstopped(p, k, sid) ==
  IF sid # sends[k].session_id
    THEN startProgressPolling(p, sid, IntervalHandle(k, 2))
    ELSE p

\* The end of the try block and the finally block of send k, on the poller
\* state p: restart polling when the response named another session than the
\* call saw, then stopProgressPolling.
SendTail(p, k, sid) ==
  stopProgressPolling(IF sid # sends[k].session_id
                        THEN startProgressPolling(p, sid, IntervalHandle(k, 2))
                        ELSE p)

\* sendMessage of send k resolves (outcomes: how its attempts end): the try
\* block up to the await of refreshSessions and, when refreshSessions returns
\* without a request (no token), the rest of the call.
SendChatSuccess(k, outcomes, sid, wp) ==
  LET response == ChatResponse(k, sid, wp) IN
  /\ k \in 1..Len(sends)
  /\ sends[k].pc = "post"
  /\ withRetry[outcomes].result = "ok"
  /\ srvSessions' = srvSessions \cup {sid}
  /\ currentSessionId' = response.session_id
  /\ workspacePath' = IF response.workspace_path # Null THEN response.workspace_path
                      ELSE workspacePath
  /\ messages' = ReplacePlaceholder(messages, k, response)
  /\ IF isAuthenticated
       THEN /\ sends' = [sends EXCEPT ![k].pc = "refresh", ![k].response_id = sid,
                                       ![k].outcome = "ok"]
            /\ UNCHANGED <<sessions, isLoading, progress, progressIntervalRef, timers, polls>>
       ELSE /\ sessions' = <<>>
            /\ isLoading' = FALSE
            /\ SetPoller(SendTail(Poller, k, sid))
            /\ sends' = [sends EXCEPT ![k] = Returned(@, "ok")]
  /\ noop' = ""
  /\ UNCHANGED sideVars
  /\ UNCHANGED <<error, token, switches, removes, refreshes, nCalls>>

\* (a failed refresh taken as a failure of the send: its error reaches the
\* catch block of sendUserMessage)
SendRefreshedThrows(k, ok, e) ==
  /\ k \in 1..Len(sends)
  /\ sends[k].pc = "refresh"
  /\ sessions' = IF ok THEN SessionList(srvSessions) ELSE sessions
  /\ token' = IF ok THEN token ELSE AfterResponseError(e)
  /\ error' = IF ok THEN error ELSE ClassifyError[e]
  /\ messages' = IF ok THEN messages ELSE RemovePlaceholder(messages)
  /\ isLoading' = FALSE
  /\ SetPoller(IF ok THEN SendTail(Poller, k, sends[k].response_id) ELSE stopProgressPolling(Poller))
  /\ sends' = [sends EXCEPT ![k] = Returned(@, IF ok THEN "ok" ELSE "failed")]
  /\ noop' = ""
  /\ UNCHANGED sideVars
  /\ UNCHANGED <<currentSessionId, workspacePath, switches,
                 removes, refreshes, srvSessions, nCalls>>

\* The GET /api/sessions of send k's refreshSessions is answered (ok) or
\* fails with e; then the rest of the try block and the finally block.
SendRefreshed(k, ok, e) ==
  /\ k \in 1..Len(sends)
  /\ sends[k].pc = "refresh"
  /\ sessions' = IF ok THEN SessionList(srvSessions) ELSE sessions
  /\ token' = IF ok THEN token ELSE AfterResponseError(e)
  /\ isLoading' = FALSE
  /\ SetPoller(SendTail(Poller, k, sends[k].response_id))
  /\ sends' = [sends EXCEPT ![k] = Returned(@, "ok")]
  /\ noop' = ""
  /\ UNCHANGED sideVars
  /\ UNCHANGED <<messages, currentSessionId, workspacePath, error, switches,
                 removes, refreshes, srvSessions, nCalls>>

\* sendMessage of send k rejects (outcomes: how its attempts end): the catch
\* and finally blocks of sendUserMessage.
SendChatFailure(k, outcomes) ==
  LET r == withRetry[outcomes] IN
  /\ k \in 1..Len(sends)
  /\ sends[k].pc = "post"
  /\ r.result # "ok"
  /\ token' = AfterAttempts(outcomes, r.attempts)
  /\ error' = ClassifyError[r.result]
  /\ messages' = RemovePlaceholder(messages)
  /\ isLoading' = FALSE
  /\ SetPoller(stopProgressPolling(Poller))
  /\ sends' = [sends EXCEPT ![k] = Returned(@, "failed")]
  /\ noop' = ""
  /\ UNCHANGED sideVars
  /\ UNCHANGED <<sessions, currentSessionId, workspacePath, switches, removes,
                 refreshes, srvSessions, nCalls>>

\* --------------------------------------------------------- startNewChat
\* (startNewChat clearing the cached session list as well)
startNewChatClearsSessions ==
  /\ nCalls < MaxCalls
  /\ nCalls' = nCalls + 1
  /\ messages' = <<>>
  /\ sessions' = <<>>
  /\ currentSessionId' = Null
  /\ workspacePath' = Null
  /\ error' = Null
  /\ SetPoller(stopProgressPolling(Poller))
  /\ noop' = ""
  /\ UNCHANGED sideVars
  /\ UNCHANGED <<isLoading, token, sends, switches, removes, refreshes, srvSessions>>

startNewChat ==
  /\ nCalls < MaxCalls
  /\ nCalls' = nCalls + 1
  /\ messages' = <<>>
  /\ currentSessionId' = Null
  /\ workspacePath' = Null
  /\ error' = Null
  /\ SetPoller(stopProgressPolling(Poller))
  /\ noop' = ""
  /\ UNCHANGED sideVars
  /\ UNCHANGED <<sessions, isLoading, token, sends, switches, removes, refreshes,
                 srvSessions>>

\* -------------------------------------------------------- switchSession
\* (the guard never taken)
SameSessionNever(sessionId) == FALSE

\* The guard of switchSession: the call returns at once iff this holds.
SameSession(sessionId) == sessionId = currentSessionId

\* switchSession(sessionId), up to the await of getSessionHistory. The call
\* keeps the sessions list of its closure: what it will find there for
\* sessionId is recorded with the call.
switchSession(sessionId) ==
  /\ IF SameSession(sessionId)
       THEN ReturnsAtGuard("switchSession")
       ELSE /\ nCalls < MaxCalls
            /\ nCalls' = nCalls + 1
            /\ isLoading' = TRUE
            /\ error' = Null
            /\ SetPoller(stopProgressPolling(Poller))
            /\ switches' = switches (+) SetToBag({[sessionId |-> sessionId,
                                 workspace_path |-> FindWorkspace(sessions, sessionId)]})
            /\ noop' = ""
            /\ UNCHANGED sideVars
            /\ UNCHANGED <<messages, sessions, currentSessionId, workspacePath, token,
                           sends, removes, refreshes, srvSessions>>

\* The history of a switchSession call arrives: the try and finally blocks.
SwitchLoaded(c) ==
  /\ BagIn(c, switches)
  /\ c.sessionId \in srvSessions
  /\ switches' = switches (-) SetToBag({c})
  /\ messages' = HistoryOf(c.sessionId)
  /\ currentSessionId' = c.sessionId
  /\ workspacePath' = IF c.workspace_path # Null THEN c.workspace_path ELSE workspacePath
  /\ isLoading' = FALSE
  /\ noop' = ""
  /\ UNCHANGED sideVars
  /\ UNCHANGED <<sessions, progress, error, progressIntervalRef, timers, token, sends, removes, refreshes, polls, srvSessions, nCalls>>

\* (the failure path with the session adopted all the same)
SwitchFailedAdopts(c, e) ==
  /\ BagIn(c, switches)
  /\ switches' = switches (-) SetToBag({c})
  /\ token' = AfterResponseError(e)
  /\ error' = ErrorMessage[e]
  /\ currentSessionId' = c.sessionId
  /\ isLoading' = FALSE
  /\ noop' = ""
  /\ UNCHANGED sideVars
  /\ UNCHANGED <<messages, sessions, workspacePath, progress,
                 progressIntervalRef, timers, sends, removes, refreshes, polls,
                 srvSessions, nCalls>>

\* The history request of a switchSession call fails with e: the catch and
\* finally blocks.
SwitchFailed(c, e) ==
  /\ BagIn(c, switches)
  /\ switches' = switches (-) SetToBag({c})
  /\ token' = AfterResponseError(e)
  /\ error' = ErrorMessage[e]
  /\ isLoading' = FALSE
  /\ noop' = ""
  /\ UNCHANGED sideVars
  /\ UNCHANGED <<messages, sessions, currentSessionId, workspacePath, progress,
                 progressIntervalRef, timers, sends, removes, refreshes, polls,
                 srvSessions, nCalls>>

\* ------------------------------------------------------ refreshSessions
\* refreshSessions() called on its own (Sidebar's refresh button).
refreshSessions ==
  /\ nCalls < MaxCalls
  /\ nCalls' = nCalls + 1
  /\ IF ~isAuthenticated
       THEN sessions' = <<>> /\ UNCHANGED refreshes
       ELSE refreshes' = refreshes + 1 /\ UNCHANGED sessions
  /\ noop' = ""
  /\ UNCHANGED sideVars
  /\ UNCHANGED <<messages, currentSessionId, workspacePath, isLoading, progress, error,
                 progressIntervalRef, timers, token, sends, switches, removes,
                 polls, srvSessions>>

\* GET /api/sessions of such a call is answered (ok) or fails with e.
RefreshDone(ok, e) ==
  /\ refreshes > 0
  /\ refreshes' = refreshes - 1
  /\ sessions' = IF ok THEN SessionList(srvSessions) ELSE sessions
  /\ token' = IF ok THEN token ELSE AfterResponseError(e)
  /\ noop' = ""
  /\ UNCHANGED sideVars
  /\ UNCHANGED <<messages, currentSessionId, workspacePath, isLoading, progress, error,
                 progressIntervalRef, timers, sends, switches, removes, polls,
                 srvSessions, nCalls>>

\* -------------------------------------------------------- removeSession
\* removeSession(sessionId), up to the await of deleteSession. The call
\* keeps the currentSessionId of its closure.
removeSession(sessionId) ==
  /\ nCalls < MaxCalls
  /\ nCalls' = nCalls + 1
  /\ removes' = removes (+) SetToBag({[sessionId |-> sessionId,
                                       currentSessionId |-> currentSessionId,
                                       pc |-> "delete"]})
  /\ noop' = ""
  /\ UNCHANGED sideVars
  /\ UNCHANGED <<messages, sessions, currentSessionId, workspacePath, isLoading, progress,
                 error, progressIntervalRef, timers, token, sends, switches,
                 refreshes, polls, srvSessions>>

\* (the test left out: every deletion resets the conversation)
RemovedIsCurrentAlways(c) == TRUE

\* sessionId === currentSessionId, with the currentSessionId of the call's
\* closure.
RemovedIsCurrent(c) == c.sessionId = c.currentSessionId

\* The delete request is answered 2xx: startNewChat() when the call saw the
\* session as current, then refreshSessions() up to its await (or to its
\* return, without a token).
RemoveDeleted(c) ==
  /\ BagIn(c, removes)
  /\ c.pc = "delete"
  /\ srvSessions' = srvSessions \ {c.sessionId}
  /\ IF RemovedIsCurrent(c)
       THEN /\ messages' = <<>>
            /\ currentSessionId' = Null
            /\ workspacePath' = Null
            /\ error' = Null
            /\ SetPoller(stopProgressPolling(Poller))
       ELSE UNCHANGED <<messages, currentSessionId, workspacePath, error, progress,
                        progressIntervalRef, timers, polls>>
  /\ IF ~isAuthenticated
       THEN /\ sessions' = <<>>
            /\ removes' = removes (-) SetToBag({c})
       ELSE /\ removes' = (removes (-) SetToBag({c})) (+) SetToBag({[c EXCEPT !.pc = "refresh"]})
            /\ UNCHANGED sessions
  /\ noop' = ""
  /\ UNCHANGED sideVars
  /\ UNCHANGED <<isLoading, token, sends, switches, refreshes, nCalls>>

\* The delete request fails with e: the catch block logs it.
RemoveFailed(c, e) ==
  /\ BagIn(c, removes)
  /\ c.pc = "delete"
  /\ removes' = removes (-) SetToBag({c})
  /\ token' = AfterResponseError(e)
  /\ noop' = ""
  /\ UNCHANGED sideVars
  /\ UNCHANGED <<messages, sessions, currentSessionId, workspacePath, isLoading, progress,
                 error, progressIntervalRef, timers, sends, switches, refreshes,
                 polls, srvSessions, nCalls>>

\* GET /api/sessions of removeSession's refreshSessions is answered (ok) or
\* fails with e; the call returns.
RemoveRefreshed(c, ok, e) ==
  /\ BagIn(c, removes)
  /\ c.pc = "refresh"
  /\ removes' = removes (-) SetToBag({c})
  /\ sessions' = IF ok THEN SessionList(srvSessions) ELSE sessions
  /\ token' = IF ok THEN token ELSE AfterResponseError(e)
  /\ noop' = ""
  /\ UNCHANGED sideVars
  /\ UNCHANGED <<messages, currentSessionId, workspacePath, isLoading, progress, error,
                 progressIntervalRef, timers, sends, switches, refreshes, polls,
                 srvSessions, nCalls>>

\* ------------------------------------------------------- progress polls
\* A live interval timer fires: poll() issues a progress fetch.
PollTick(t) ==
  /\ t \in timers
  /\ PollsInFlight < MaxPolls
  /\ polls' = polls (+) SetToBag({[loop |-> t.id, sessionId |-> t.sessionId]})
  /\ noop' = ""
  /\ UNCHANGED sideVars
  /\ UNCHANGED <<messages, sessions, currentSessionId, workspacePath, isLoading, progress,
                 error, progressIntervalRef, timers, token, sends, switches,
                 removes, refreshes, srvSessions, nCalls>>

\* What getProgress resolves to: the body of a 2xx response, or not_found
\* when the request failed.
getProgress(ok, status) == IF ok THEN status ELSE "not_found"

\* (poll() with the not_found test left out)
ApplyProgressUnfiltered(old, status) == status

\* What poll() makes of the resolved progress data.
ApplyProgress(old, status) == IF status # "not_found" THEN status ELSE old

\* (poll() clearing its own interval once it has seen a terminal status)
PollDoneStopsItself(f, ok, status, e) ==
  /\ BagIn(f, polls)
  /\ polls' = polls (-) SetToBag({f})
  /\ token' = IF ok THEN token ELSE AfterResponseError(e)
  /\ progress' = ApplyProgress(progress, getProgress(ok, status))
  /\ timers' = IF progress' \in {"completed", "error"}
                 THEN {t \in timers : t.id # f.loop} ELSE timers
  /\ progressIntervalRef' = IF progress' \in {"completed", "error"} /\ progressIntervalRef = f.loop
                              THEN 0 ELSE progressIntervalRef
  /\ noop' = ""
  /\ UNCHANGED sideVars
  /\ UNCHANGED <<messages, sessions, currentSessionId, workspacePath, isLoading, error,
                 sends, switches, removes, refreshes, srvSessions, nCalls>>

\* A progress fetch is answered with a status (ok) or fails with e.
PollDone(f, ok, status, e) ==
  /\ BagIn(f, polls)
  /\ polls' = polls (-) SetToBag({f})
  /\ token' = IF ok THEN token ELSE AfterResponseError(e)
  /\ progress' = ApplyProgress(progress, getProgress(ok, status))
  /\ noop' = ""
  /\ UNCHANGED sideVars
  /\ UNCHANGED <<messages, sessions, currentSessionId, workspacePath, isLoading, error,
                 progressIntervalRef, timers, sends, switches, removes, refreshes,
                 srvSessions, nCalls>>

\* ------------------------------------------------------- specification
ProgressStatuses == {"not_found", "in_progress", "completed", "error"}

Next ==
  \/ \E content \in Texts : sendUserMessage(content)
  \/ \E k \in 1..MaxSends, outcomes \in AttemptOutcomes, sid \in SessionIds, wp \in BOOLEAN :
       SendChatSuccess(k, outcomes, sid, IF wp THEN WorkspaceOf[sid] ELSE Null)
  \/ \E k \in 1..MaxSends, outcomes \in AttemptOutcomes : SendChatFailure(k, outcomes)
  \/ \E k \in 1..MaxSends : SendRefreshed(k, TRUE, "eNetwork")
  \/ \E k \in 1..MaxSends, e \in OtherErrors : SendRefreshed(k, FALSE, e)
  \/ startNewChat
  \/ \E sessionId \in SessionIds : switchSession(sessionId)
  \/ \E c \in BagToSet(switches) : SwitchLoaded(c)
  \/ \E c \in BagToSet(switches), e \in OtherErrors : SwitchFailed(c, e)
  \/ refreshSessions
  \/ RefreshDone(TRUE, "eNetwork")
  \/ \E e \in OtherErrors : RefreshDone(FALSE, e)
  \/ \E sessionId \in SessionIds : removeSession(sessionId)
  \/ \E c \in BagToSet(removes) : RemoveDeleted(c)
  \/ \E c \in BagToSet(removes), e \in OtherErrors : RemoveFailed(c, e)
  \/ \E c \in BagToSet(removes) : RemoveRefreshed(c, TRUE, "eNetwork")
  \/ \E c \in BagToSet(removes), e \in OtherErrors : RemoveRefreshed(c, FALSE, e)
  \/ \E t \in timers : PollTick(t)
  \/ \E f \in BagToSet(polls), status \in ProgressStatuses : PollDone(f, TRUE, status, "eNetwork")
  \/ \E f \in BagToSet(polls), e \in OtherErrors : PollDone(f, FALSE, "not_found", e)

Spec == Init /\ [][Next]_vars

\* The backend answers or fails the request send k awaits: the chat request
\* (with its retries), then the session list request that follows a success.
SendAnswered(k) ==
  /\ k \in 1..Len(sends)
  /\ sends[k].pc # "done"
  /\ \/ \E outcomes \in AttemptOutcomes, sid \in SessionIds, wp \in BOOLEAN :
          SendChatSuccess(k, outcomes, sid, IF wp THEN WorkspaceOf[sid] ELSE Null)
     \/ \E outcomes \in AttemptOutcomes : SendChatFailure(k, outcomes)
     \/ \E ok \in BOOLEAN, e \in OtherErrors : SendRefreshed(k, ok, e)

FairSpec == Spec /\ \A k \in 1..MaxSends : WF_vars(SendAnswered(k))

\* ------------------------------------------------- withRetry, stepwise
\* One call of sendMessage followed attempt by attempt: the loop of withRetry
\* around api.post, then the catch block of sendUserMessage when it throws.
\* retry.outcomes: how the operation ends on its 1st, 2nd, 3rd call;
\* retry.request: the ChatRequest sendUserMessage passed to sendMessage;
\* retry.posts: the bodies of the POST /api/chat requests issued so far.
\* The user may switch to another session while the call is going on.
RetryInputs == [1..(MAX_RETRIES + 1) -> {"ok"} \cup ErrorKinds]

\* The hook as constructed, with no operation called.
ChatIdle ==
  /\ messages = <<>> /\ sessions = <<>> /\ currentSessionId = Null /\ workspacePath = Null
  /\ isLoading = FALSE /\ progress = Null /\ error = Null
  /\ progressIntervalRef = 0 /\ timers = {} /\ token = TRUE
  /\ sends = <<>> /\ switches = EmptyBag /\ removes = EmptyBag /\ refreshes = 0
  /\ polls = EmptyBag /\ srvSessions = {SessionOrder[1]} /\ nCalls = 0 /\ noop = ""

\* The argument sendUserMessage(content) passes to sendMessage.
ChatRequestOf(content) ==
  [message |-> Trim(content), session_id |-> currentSessionId, workspace_path |-> workspacePath]

RetryInit ==
  /\ ChatIdle
  /\ retry \in {[RetryIdle EXCEPT !.pc = "call", !.outcomes = o,
                                  !.request = ChatRequestOf(<<" ", "a", " ">>)] : o \in RetryInputs}
  /\ classify = ClassifyIdle
  /\ auth = AuthIdle /\ conn = ConnIdle /\ extract = ExtractIdle /\ app = AppIdle

\* (the operation building its body from the hook's state at each call)
PostedBodyCurrent ==
  [message |-> retry.request.message, session_id |-> currentSessionId,
   workspace_path |-> workspacePath]

\* The body the operation posts: the request of sendMessage's closure.
PostedBody == retry.request

\* try { return await operation() } catch: the operation is called and
\* resolves, or rejects with an error that is retried or thrown.
RetryCall ==
  LET o == retry.outcomes[retry.attempt + 1] IN
  /\ retry.pc = "call"
  /\ retry' = [retry EXCEPT
                 !.calls = @ + 1,
                 !.posts = Append(@, PostedBody),
                 !.pc = IF o = "ok" THEN "returned"
                        ELSE IF isRetryableError(o) /\ retry.attempt < MAX_RETRIES THEN "delay"
                        ELSE "thrown",
                 !.thrown = IF o = "ok" \/ (isRetryableError(o) /\ retry.attempt < MAX_RETRIES)
                              THEN Null ELSE o]
  /\ UNCHANGED retryRest

\* await delay(RETRY_DELAY * (attempt + 1)); continue
RetryDelay ==
  /\ retry.pc = "delay"
  /\ retry' = [retry EXCEPT !.delays = Append(@, RETRY_DELAY * (retry.attempt + 1)),
                            !.attempt = @ + 1,
                            !.pc = "call"]
  /\ UNCHANGED retryRest

\* The catch block of sendUserMessage picks the banner for the thrown error.
RetrySurface ==
  /\ retry.pc = "thrown"
  /\ retry' = [retry EXCEPT !.pc = "surfaced", !.banner = ClassifyError[retry.thrown]]
  /\ UNCHANGED retryRest

\* While the call is going on the user switches to the session the backend
\* has, and its history loads.
RetrySwitch ==
  /\ retry.pc \in {"call", "delay"}
  /\ switchSession(SessionOrder[1])

RetrySwitched ==
  /\ retry.pc \in {"call", "delay"}
  /\ \E c \in BagToSet(switches) : SwitchLoaded(c)

RetryNext == RetryCall \/ RetryDelay \/ RetrySurface \/ RetrySwitch \/ RetrySwitched

\* The operation's promise settles and the timer of delay() fires.
RetrySpec == RetryInit /\ [][RetryNext]_vars /\ WF_vars(RetryNext)

\* ------------------------------------------- the catch block, on its own
\* Pieces of err.message: each keyword of the catch block in some letter case,
\* and pieces that hold no keyword by themselves.
ClassifyWords ==
  {<<"t", "i", "m", "e", "o", "u", "t">>,
   <<"E", "C", "O", "N", "N", "A", "B", "O", "R", "T", "E", "D">>,
   <<"N", "e", "t", "w", "o", "r", "k">>,
   <<"e", "c", "o", "n", "n", "r", "e", "f", "u", "s", "e", "d">>,
   <<"E", "N", "O", "T", "F", "O", "U", "N", "D">>,
   <<"5", "0", "2">>,
   <<"5", "0", "3">>,
   <<"5", "0", "4">>,
   <<"A", "u", "t", "h", "e", "n", "t", "i", "c", "a", "t", "i", "o", "n">>,
   <<"4", "0", "1">>,
   <<"5", "0">>,
   <<"4">>,
   <<"B", "a", "d">>}

\* Messages of thrown Errors: up to two pieces written one after the other.
ClassifyMessages ==
  {<<>>} \cup ClassifyWords \cup {a \o b : a \in ClassifyWords, b \in ClassifyWords}

\* A value is thrown inside the try block of sendUserMessage: an Error with
\* a message, or a value that is not an Error.
ClassifyInit ==
  /\ classify \in {[ClassifyIdle EXCEPT !.pc = "thrown", !.isError = TRUE, !.message = m] :
                     m \in ClassifyMessages}
                  \cup {[ClassifyIdle EXCEPT !.pc = "thrown", !.message = m] : m \in ClassifyWords}
  /\ ChatIdle
  /\ retry = RetryIdle
  /\ auth = AuthIdle /\ conn = ConnIdle /\ extract = ExtractIdle /\ app = AppIdle

\* catch (err) { ... setError(errorMessage) }: errorMessage is one of the
\* fixed texts (text) or err.message itself (raw).
ClassifyCatch ==
  /\ classify.pc = "thrown"
  /\ LET category == ErrorCategory(ToLowerCase(classify.message))
         errorMessage ==
           IF ~classify.isError THEN [text |-> "Failed to send message", raw |-> <<>>]
           ELSE IF category = "raw" THEN [text |-> "", raw |-> classify.message]
           ELSE [text |-> CategoryText[category], raw |-> <<>>]
     IN  classify' = [classify EXCEPT !.pc = "shown", !.errorMessage = errorMessage]
  /\ UNCHANGED classifyRest

ClassifyNext == ClassifyCatch

ClassifySpec == ClassifyInit /\ [][ClassifyNext]_vars

\* ------------------------------------------- the HTTP client, on its own
\* Client storage (TOKEN_KEY, USER_KEY) and the requests made through `api`.
\* auth.inflight: the requests awaiting their response; header: the request
\* interceptor attached an Authorization header; attempt: the iteration of
\* withRetry's loop that issued it; stage "delay": withRetry is waiting before
\* it issues the request again.
\* auth.last: what the last step did, as its caller sees it.
\* auth.clearedBy: what last removed the stored token ("401", "logout"), Null
\* once a token is stored again.

\* The functions of the client that issue a request.
ApiOps == {"getSessions", "checkConnection", "sendMessage", "getProgress", "deleteSession",
           "getSessionHistory", "listWorkspaceDirectory", "getSessionVisualizations",
           "login", "register", "refreshToken"}
\* refreshSessions (the hook's only caller of getSessions) and checkConnection
\* test isAuthenticated() before they issue their request.
GuardedOps == {"getSessions", "checkConnection"}
\* login, register and refreshToken store the token and user they receive.
StoringOps == {"login", "register", "refreshToken"}
\* How a request can fail.
AuthErrors == {"e401", "e500", "e503", "eNetwork"}

AuthInit ==
  /\ auth \in {[pc |-> "run", token |-> t, user |-> t, inflight |-> {}, made |-> 0,
                last |-> [event |-> "none"], clearedBy |-> Null] : t \in BOOLEAN}
  /\ ChatIdle
  /\ retry = RetryIdle /\ classify = ClassifyIdle /\ conn = ConnIdle /\ extract = ExtractIdle /\ app = AppIdle

\* (the response interceptor removing the token but not the user profile)
InterceptErrorTokenOnly(e) ==
  IF ErrorStatus[e] = 401 THEN [token |-> FALSE, user |-> auth.user] ELSE [token |-> auth.token, user |-> auth.user]

\* The response interceptor's error handler: what client storage holds after.
InterceptError(e) ==
  IF ErrorStatus[e] = 401 THEN [token |-> FALSE, user |-> FALSE]
  ELSE [token |-> auth.token, user |-> auth.user]

\* The request interceptor: the Authorization header is set when a token is stored.
AuthRequest(id, op, attempt) ==
  [id |-> id, op |-> op, header |-> auth.token, attempt |-> attempt, stage |-> "sent"]

\* A function of the client is called.
AuthCall(op) ==
  /\ auth.pc = "run"
  /\ auth.made < MaxRequests
  /\ IF op \in GuardedOps /\ ~auth.token
       THEN auth' = [auth EXCEPT !.last = [event |-> "skipped", op |-> op]]
       ELSE auth' = [auth EXCEPT !.inflight = @ \cup {AuthRequest(auth.made + 1, op, 0)},
                                 !.made = @ + 1,
                                 !.last = [event |-> "issued", op |-> op]]
  /\ UNCHANGED authRest

\* A request is answered with a 2xx status.
AuthResolve(r) ==
  /\ auth.pc = "run"
  /\ r \in auth.inflight /\ r.stage = "sent"
  /\ auth' = [auth EXCEPT !.inflight = @ \ {r},
                          !.token = IF r.op \in StoringOps THEN TRUE ELSE @,
                          !.user = IF r.op \in StoringOps THEN TRUE ELSE @,
                          !.clearedBy = IF r.op \in StoringOps THEN Null ELSE @,
                          !.last = [event |-> "resolved", op |-> r.op]]
  /\ UNCHANGED authRest

\* A request fails with e: the response interceptor runs and rejects; the
\* withRetry loop of sendMessage waits to try again, any other caller gets e.
AuthReject(r, e) ==
  /\ auth.pc = "run"
  /\ r \in auth.inflight /\ r.stage = "sent"
  /\ LET store == InterceptError(e)
         again == r.op = "sendMessage" /\ isRetryableError(e) /\ r.attempt < MAX_RETRIES
     IN  auth' = [auth EXCEPT
                    !.token = store.token,
                    !.user = store.user,
                    !.clearedBy = IF ErrorStatus[e] = 401 THEN "401" ELSE @,
                    !.inflight = IF again THEN (@ \ {r}) \cup {[r EXCEPT !.stage = "delay"]}
                                 ELSE @ \ {r},
                    !.last = IF again THEN [event |-> "retrying", op |-> r.op, error |-> e]
                             ELSE [event |-> "thrown", op |-> r.op, error |-> e]]
  /\ UNCHANGED authRest

\* The delay of withRetry is over: the operation is called again.
AuthRetry(r) ==
  /\ auth.pc = "run"
  /\ r \in auth.inflight /\ r.stage = "delay"
  /\ auth' = [auth EXCEPT !.inflight = (@ \ {r}) \cup {AuthRequest(r.id, r.op, r.attempt + 1)},
                          !.last = [event |-> "issued", op |-> r.op]]
  /\ UNCHANGED authRest

\* (logout removing the token but not the user profile)
AuthLogoutKeepsUser ==
  /\ auth.pc = "run"
  /\ auth.last # [event |-> "logout"]
  /\ auth' = [auth EXCEPT !.token = FALSE, !.clearedBy = "logout",
                          !.last = [event |-> "logout"]]
  /\ UNCHANGED authRest

\* logout()
AuthLogout ==
  /\ auth.pc = "run"
  /\ auth.last # [event |-> "logout"]
  /\ auth' = [auth EXCEPT !.token = FALSE, !.user = FALSE, !.clearedBy = "logout",
                          !.last = [event |-> "logout"]]
  /\ UNCHANGED authRest

AuthNext ==
  \/ \E op \in ApiOps : AuthCall(op)
  \/ \E r \in auth.inflight : AuthResolve(r)
  \/ \E r \in auth.inflight, e \in AuthErrors : AuthReject(r, e)
  \/ \E r \in auth.inflight : AuthRetry(r)
  \/ AuthLogout

AuthSpec == AuthInit /\ [][AuthNext]_vars

\* ------------------------------- the connection monitor and the input box
\* The hook with its connection monitor, used through the ChatInput of App:
\* sendUserMessage is called by ChatInput.handleSend only.
\* conn.status: connectionStatus; conn.check: the request of a checkConnection
\* call that awaits its answer (a sequence: empty when there is none); conn.checks: the calls
\* of checkConnection made; conn.resolved: those that have set the status;
\* conn.last: what the last step of the monitor did.
CHECK_TIMEOUT == 5000
CHECK_INTERVAL == 30000

ConnInit ==
  /\ ChatMounted
  /\ conn = [pc |-> "rendered", status |-> "checking", check |-> <<>>, checks |-> 0,
             resolved |-> 0, last |-> "none"]
  /\ retry = RetryIdle /\ classify = ClassifyIdle /\ auth = AuthIdle /\ extract = ExtractIdle /\ app = AppIdle

\* (a failed check leaving the status as it is)
ConnectionAfterKeeps(ok) == IF ok THEN "connected" ELSE conn.status

\* The status checkConnection sets when its request is answered (ok) or fails.
ConnectionAfter(ok) == IF ok THEN "connected" ELSE "disconnected"

\* checkConnection(), up to its await.
checkConnection ==
  IF ~isAuthenticated
    THEN [conn EXCEPT !.status = "disconnected", !.checks = @ + 1, !.resolved = @ + 1,
                      !.last = "unauthenticated"]
    ELSE [conn EXCEPT !.check = <<[method |-> "GET", url |-> "/api/sessions",
                                  timeout |-> CHECK_TIMEOUT]>>,
                      !.checks = @ + 1, !.last = "requested"]

\* The mount effect: the initial check, and the interval is set.
ConnMount ==
  /\ conn.pc = "rendered"
  /\ conn' = [checkConnection EXCEPT !.pc = "mounted"]
  /\ UNCHANGED chatVars
  /\ UNCHANGED <<retry, classify, auth, extract, app>>

\* The interval fires. The request of the check before has been answered or
\* has timed out by then (CHECK_TIMEOUT < CHECK_INTERVAL).
ConnTick ==
  /\ conn.pc = "mounted"
  /\ conn.check = <<>>
  /\ conn.checks < MaxChecks
  /\ conn' = checkConnection
  /\ UNCHANGED chatVars
  /\ UNCHANGED <<retry, classify, auth, extract, app>>

\* The request of a check is answered (ok) or fails with e; a timeout is the
\* failure eTimeout.
ConnCheckDone(ok, e) ==
  /\ conn.pc = "mounted"
  /\ conn.check # <<>>
  /\ conn' = [conn EXCEPT !.check = <<>>, !.status = ConnectionAfter(ok), !.resolved = @ + 1,
                          !.last = IF ok THEN "ok" ELSE e]
  /\ token' = IF ok THEN token ELSE AfterResponseError(e)
  /\ UNCHANGED <<messages, sessions, currentSessionId, workspacePath, isLoading, progress,
                 error, progressIntervalRef, timers, sends, switches, removes, refreshes,
                 polls, srvSessions, nCalls, noop>>
  /\ UNCHANGED <<retry, classify, auth, extract, app>>

\* The disabled prop App passes to ChatInput.
InputDisabled == conn.status = "disconnected"

\* (handleSend without the disabled test)
CanSendIgnoringDisabled(input) == Trim(input) # <<>> /\ ~isLoading

\* The guard of ChatInput.handleSend.
CanSend(input) == Trim(input) # <<>> /\ ~isLoading /\ ~InputDisabled

\* ChatInput.handleSend with `input` typed in the box.
handleSend(input) ==
  /\ conn.pc = "mounted"
  /\ IF CanSend(input)
       THEN Len(sends) < MaxInputSends /\ sendUserMessage(Trim(input))
       ELSE ReturnsAtGuard(IF Trim(input) # <<>> /\ ~isLoading THEN "handleSend, disabled"
                           ELSE "handleSend")

\* How a check's request can fail.
CheckErrors == {"eTimeout", "eNetwork", "e401", "e500"}

ConnNext ==
  \/ ConnMount
  \/ ConnTick
  \/ ConnCheckDone(TRUE, "eNetwork")
  \/ \E e \in CheckErrors : ConnCheckDone(FALSE, e)
  \/ \E input \in Texts : handleSend(input)
  \/ \E k \in 1..MaxSends, outcomes \in AttemptOutcomes, sid \in SessionIds, wp \in BOOLEAN :
       SendChatSuccess(k, outcomes, sid, IF wp THEN WorkspaceOf[sid] ELSE Null)
  \/ \E k \in 1..MaxSends, outcomes \in AttemptOutcomes : SendChatFailure(k, outcomes)
  \/ \E k \in 1..MaxSends : SendRefreshed(k, TRUE, "eNetwork")
  \/ \E k \in 1..MaxSends, e \in OtherErrors : SendRefreshed(k, FALSE, e)
  \/ startNewChat
  \/ \E sessionId \in SessionIds : switchSession(sessionId)
  \/ \E c \in BagToSet(switches) : SwitchLoaded(c)
  \/ \E c \in BagToSet(switches), e \in OtherErrors : SwitchFailed(c, e)
  \/ refreshSessions
  \/ RefreshDone(TRUE, "eNetwork")
  \/ \E e \in OtherErrors : RefreshDone(FALSE, e)
  \/ \E sessionId \in SessionIds : removeSession(sessionId)
  \/ \E c \in BagToSet(removes) : RemoveDeleted(c)
  \/ \E c \in BagToSet(removes), e \in OtherErrors : RemoveFailed(c, e)
  \/ \E c \in BagToSet(removes) : RemoveRefreshed(c, TRUE, "eNetwork")
  \/ \E c \in BagToSet(removes), e \in OtherErrors : RemoveRefreshed(c, FALSE, e)
  \/ \E t \in timers : PollTick(t)
  \/ \E f \in BagToSet(polls), status \in ProgressStatuses : PollDone(f, TRUE, status, "eNetwork")
  \/ \E f \in BagToSet(polls), e \in OtherErrors : PollDone(f, FALSE, "not_found", e)

ConnSpec == ConnInit /\ [][ConnNext]_vars

\* ------------------------------------------- App: logout and login again
\* App calls useChat() before it decides what to render, so the hook, its
\* timers, its requests in flight and its connection monitor live on while
\* the Login page is shown; the chat page, and with it every call the user
\* can make on the hook, exists only while App's user is set.
\* app.user: App's user state; app.logins, app.logouts: how many there were.
Users == {"u1", "u2"}

AppInit ==
  /\ ChatMounted
  /\ conn = [pc |-> "rendered", status |-> "checking", check |-> <<>>, checks |-> 0,
             resolved |-> 0, last |-> "none"]
  \* the mount effect of App has read the stored user
  /\ app = [pc |-> "run", user |-> "u1", logins |-> 0, logouts |-> 0]
  /\ retry = RetryIdle /\ classify = ClassifyIdle /\ auth = AuthIdle /\ extract = ExtractIdle

\* The chat page is rendered.
ChatShown == app.pc = "run" /\ app.user # Null

\* App.handleLogout: logout(), setUser(null).
handleLogout ==
  /\ ChatShown
  /\ app.logouts < MaxLogouts
  /\ token' = FALSE
  /\ app' = [app EXCEPT !.user = Null, !.logouts = @ + 1]
  /\ noop' = ""
  /\ UNCHANGED <<messages, sessions, currentSessionId, workspacePath, isLoading, progress,
                 error, progressIntervalRef, timers, sends, switches, removes, refreshes,
                 polls, srvSessions, nCalls>>
  /\ UNCHANGED <<retry, classify, auth, conn, extract>>

\* (handleLoginSuccess putting the connection status back to 'checking')
handleLoginSuccessResetsStatus(u) ==
  /\ app.pc = "run"
  /\ app.user = Null
  /\ app.logins < MaxLogins
  /\ token' = TRUE
  /\ app' = [app EXCEPT !.user = u, !.logins = @ + 1]
  /\ refreshes' = refreshes + 1
  /\ conn' = [conn EXCEPT !.status = "checking"]
  /\ noop' = ""
  /\ UNCHANGED <<messages, sessions, currentSessionId, workspacePath, isLoading, progress,
                 error, progressIntervalRef, timers, sends, switches, removes,
                 polls, srvSessions, nCalls>>
  /\ UNCHANGED <<retry, classify, auth, extract>>

\* The login (or register) request of the Login page succeeds for user u:
\* the token and the user are stored, then App.handleLoginSuccess runs:
\* setUser(u), refreshSessions().
handleLoginSuccess(u) ==
  /\ app.pc = "run"
  /\ app.user = Null
  /\ app.logins < MaxLogins
  /\ token' = TRUE
  /\ app' = [app EXCEPT !.user = u, !.logins = @ + 1]
  /\ refreshes' = refreshes + 1
  /\ noop' = ""
  /\ UNCHANGED <<messages, sessions, currentSessionId, workspacePath, isLoading, progress,
                 error, progressIntervalRef, timers, sends, switches, removes,
                 polls, srvSessions, nCalls>>
  /\ UNCHANGED <<retry, classify, auth, conn, extract>>

AppNext ==
  \/ ConnMount
  \/ ConnTick
  \/ ConnCheckDone(TRUE, "eNetwork")
  \/ \E e \in CheckErrors : ConnCheckDone(FALSE, e)
  \/ handleLogout
  \/ \E u \in Users : handleLoginSuccess(u)
  \/ \E input \in Texts : ChatShown /\ handleSend(input)
  \/ \E k \in 1..MaxSends, outcomes \in AttemptOutcomes, sid \in SessionIds, wp \in BOOLEAN :
       SendChatSuccess(k, outcomes, sid, IF wp THEN WorkspaceOf[sid] ELSE Null)
  \/ \E k \in 1..MaxSends, outcomes \in AttemptOutcomes : SendChatFailure(k, outcomes)
  \/ \E k \in 1..MaxSends : SendRefreshed(k, TRUE, "eNetwork")
  \/ \E k \in 1..MaxSends, e \in OtherErrors : SendRefreshed(k, FALSE, e)
  \/ ChatShown /\ startNewChat
  \/ \E sessionId \in SessionIds : ChatShown /\ switchSession(sessionId)
  \/ \E c \in BagToSet(switches) : SwitchLoaded(c)
  \/ \E c \in BagToSet(switches), e \in OtherErrors : SwitchFailed(c, e)
  \/ ChatShown /\ refreshSessions
  \/ RefreshDone(TRUE, "eNetwork")
  \/ \E e \in OtherErrors : RefreshDone(FALSE, e)
  \/ \E sessionId \in SessionIds : ChatShown /\ removeSession(sessionId)
  \/ \E c \in BagToSet(removes) : RemoveDeleted(c)
  \/ \E c \in BagToSet(removes), e \in OtherErrors : RemoveFailed(c, e)
  \/ \E c \in BagToSet(removes) : RemoveRefreshed(c, TRUE, "eNetwork")
  \/ \E c \in BagToSet(removes), e \in OtherErrors : RemoveRefreshed(c, FALSE, e)
  \/ \E t \in timers : PollTick(t)
  \/ \E f \in BagToSet(polls), status \in ProgressStatuses : PollDone(f, TRUE, status, "eNetwork")
  \/ \E f \in BagToSet(polls), e \in OtherErrors : PollDone(f, FALSE, "not_found", e)

AppSpec == AppInit /\ [][AppNext]_vars

\* ------------------------------------------------------ extractFilePaths
\* Texts are sequences of characters, one string per character; the backtick
\* is written Backtick.
Backtick == "BACKTICK"

\* \s, for the characters the texts are made of.
RegexSpace == {" ", "\n", "\t"}
\* [`"']
QuoteChars == {Backtick, "\"", "'"}
\* [/\\]
SlashChars == {"/", "\\"}
\* [-•*] (the texts are ASCII: U+2022 does not occur in them)
BulletChars == {"-", "*"}
Digits == {"0", "1", "2", "3", "4", "5", "6", "7", "8", "9"}
\* [A-Za-z0-9+/=]
Base64Chars ==
  {UpperCase[i] : i \in 1..26} \cup {LowerCase[i] : i \in 1..26} \cup Digits \cup {"+", "/", "="}

\* The character at index i of text, "" past its ends.
CharAt(text, i) == IF i \in 1..Len(text) THEN text[i] ELSE ""

ToLowerChar(c) == IF c \in DOMAIN UpperToLower THEN UpperToLower[c] ELSE c

\* text continues at i with word, letter case ignored (the i flag); word is
\* in lower case.
LooksAt(text, i, word) ==
  /\ i >= 1 /\ i + Len(word) - 1 <= Len(text)
  /\ \A k \in 1..Len(word) : ToLowerChar(text[i + k - 1]) = word[k]

\* text continues at i with exactly word.
LooksAtExactly(text, i, word) ==
  /\ i >= 1 /\ i + Len(word) - 1 <= Len(text)
  /\ \A k \in 1..Len(word) : text[i + k - 1] = word[k]

\* The number of characters of set that text has in a row from i on.
RECURSIVE RunLength(_, _, _)
RunLength(text, i, set) ==
  IF i \in 1..Len(text) /\ text[i] \in set THEN 1 + RunLength(text, i + 1, set) ELSE 0

\* (the keyword group without its alternative 'saved to')
KeywordsWithoutSavedTo ==
  <<<<"c", "r", "e", "a", "t", "e", "d">>,
    <<"g", "e", "n", "e", "r", "a", "t", "e", "d">>,
    <<"s", "a", "v", "e", "d">>,
    <<"w", "r", "i", "t", "i", "n", "g">>,
    <<"w", "r", "o", "t", "e">>,
    <<"o", "u", "t", "p", "u", "t">>,
    <<"f", "i", "l", "e">>,
    <<"i", "m", "a", "g", "e">>,
    <<"c", "h", "a", "r", "t">>,
    <<"p", "l", "o", "t">>,
    <<"f", "i", "g", "u", "r", "e">>,
    <<"w", "r", "i", "t", "t", "e", "n", " ", "t", "o">>,
    <<"e", "x", "p", "o", "r", "t", "e", "d", " ", "t", "o">>>>

\* The alternatives of the keyword group of the first pattern, in its order
\* (alternatives that differ from an earlier one in letter case only are the
\* same alternative under the i flag).
Keywords ==
  <<<<"c", "r", "e", "a", "t", "e", "d">>,
    <<"g", "e", "n", "e", "r", "a", "t", "e", "d">>,
    <<"s", "a", "v", "e", "d">>,
    <<"w", "r", "i", "t", "i", "n", "g">>,
    <<"w", "r", "o", "t", "e">>,
    <<"o", "u", "t", "p", "u", "t">>,
    <<"f", "i", "l", "e">>,
    <<"i", "m", "a", "g", "e">>,
    <<"c", "h", "a", "r", "t">>,
    <<"p", "l", "o", "t">>,
    <<"f", "i", "g", "u", "r", "e">>,
    <<"s", "a", "v", "e", "d", " ", "t", "o">>,
    <<"w", "r", "i", "t", "t", "e", "n", " ", "t", "o">>,
    <<"e", "x", "p", "o", "r", "t", "e", "d", " ", "t", "o">>>>

\* The directory names of the fourth pattern, in its order.
OutputDirs ==
  <<<<"r", "e", "p", "o", "r", "t", "s", "_", "o", "u", "t", "p", "u", "t">>,
    <<"o", "u", "t", "p", "u", "t">>,
    <<"c", "h", "a", "r", "t", "s">>,
    <<"f", "i", "g", "u", "r", "e", "s">>,
    <<"i", "m", "a", "g", "e", "s">>,
    <<"p", "l", "o", "t", "s">>,
    <<"r", "e", "s", "u", "l", "t", "s">>,
    <<"e", "x", "p", "o", "r", "t", "s">>>>

\* The extension groups: of the first three patterns, of the fourth, and of
\* the last two, each in its order.
Extensions14 ==
  <<<<"p", "n", "g">>,
    <<"j", "p", "g">>,
    <<"j", "p", "e", "g">>,
    <<"g", "i", "f">>,
    <<"s", "v", "g">>,
    <<"p", "d", "f">>,
    <<"x", "l", "s", "x">>,
    <<"x", "l", "s">>,
    <<"c", "s", "v">>,
    <<"j", "s", "o", "n">>,
    <<"h", "t", "m", "l">>,
    <<"m", "d">>,
    <<"p", "y">>,
    <<"t", "x", "t">>>>
Extensions4 ==
  <<<<"p", "n", "g">>,
    <<"j", "p", "g">>,
    <<"j", "p", "e", "g">>,
    <<"g", "i", "f">>,
    <<"s", "v", "g">>,
    <<"h", "t", "m", "l">>,
    <<"c", "s", "v">>,
    <<"j", "s", "o", "n">>,
    <<"p", "d", "f">>,
    <<"x", "l", "s", "x">>,
    <<"x", "l", "s">>>>
Extensions5 ==
  <<<<"p", "n", "g">>,
    <<"j", "p", "g">>,
    <<"j", "p", "e", "g">>,
    <<"g", "i", "f">>,
    <<"s", "v", "g">>,
    <<"p", "d", "f">>,
    <<"x", "l", "s", "x">>,
    <<"x", "l", "s">>,
    <<"c", "s", "v">>,
    <<"j", "s", "o", "n">>,
    <<"h", "t", "m", "l">>>>

\* The extension group of pattern p (1..6, in the order of the patterns array).
ExtensionsOf(p) == IF p <= 3 THEN Extensions14 ELSE IF p = 4 THEN Extensions4 ELSE Extensions5

\* The character class the lazy part of pattern p's capture is made of.
InPathClass(p, c) ==
  CASE p = 2 -> c \notin RegexSpace \cup {Backtick}
    [] p = 3 -> c \notin RegexSpace
    [] p = 6 -> c \notin {"\"", "'", "\n"}
    [] OTHER -> c \notin RegexSpace \cup QuoteChars

\* What follows the extension in pattern p matches at j.
SuffixMatches(p, text, j) ==
  CASE p = 2 -> CharAt(text, j) = Backtick
    [] p = 6 -> CharAt(text, j) \in {"\"", "'"}
    [] OTHER -> TRUE

\* The index of the last character the match takes, the extension ending at e.
MatchEnd(p, text, e) ==
  CASE p = 1 -> IF CharAt(text, e + 1) \in QuoteChars THEN e + 1 ELSE e
    [] p = 2 -> e + 1
    [] p = 6 -> e + 1
    [] OTHER -> e

NoMatch == [found |-> FALSE, capStart |-> 0, capEnd |-> 0, end |-> 0]

\* The lazy part of the capture, then the dot, the extension and what follows:
\* the lazy part starts at b and takes n characters or, failing that, more.
RECURSIVE LazyTail(_, _, _, _, _)
LazyTail(p, text, capStart, b, n) ==
  IF b + n - 1 > Len(text) \/ ~InPathClass(p, text[b + n - 1]) THEN NoMatch
  ELSE LET dot == b + n
           exts == ExtensionsOf(p)
           hits == {k \in 1..Len(exts) :
                      /\ LooksAt(text, dot + 1, exts[k])
                      /\ SuffixMatches(p, text, dot + 1 + Len(exts[k]))}
       IN  IF CharAt(text, dot) = "." /\ hits # {}
             THEN LET k == CHOOSE h \in hits : \A g \in hits : h <= g
                      e == dot + Len(exts[k])
                  IN  [found |-> TRUE, capStart |-> capStart, capEnd |-> e,
                       end |-> MatchEnd(p, text, e)]
             ELSE LazyTail(p, text, capStart, b, n + 1)

\* First pattern, after the keyword that ends before r: [:\s]+ taking m
\* characters (as many as it can, then fewer), the optional quote, the capture.
RECURSIVE AfterKeyword(_, _, _)
AfterKeyword(text, r, m) ==
  IF m < 1 THEN NoMatch
  ELSE LET pos == r + m
           quoted == IF CharAt(text, pos) \in QuoteChars
                       THEN LazyTail(1, text, pos + 1, pos + 1, 1) ELSE NoMatch
           bare == LazyTail(1, text, pos, pos, 1)
       IN  IF quoted.found THEN quoted
           ELSE IF bare.found THEN bare
           ELSE AfterKeyword(text, r, m - 1)

\* First pattern at i, trying the keywords from the k-th on.
RECURSIVE KeywordMatch(_, _, _)
KeywordMatch(text, i, k) ==
  IF k > Len(Keywords) THEN NoMatch
  ELSE IF ~LooksAt(text, i, Keywords[k]) THEN KeywordMatch(text, i, k + 1)
  ELSE LET r == i + Len(Keywords[k])
           m == AfterKeyword(text, r, RunLength(text, r, RegexSpace \cup {":"}))
       IN  IF m.found THEN m ELSE KeywordMatch(text, i, k + 1)

\* Third pattern after the bullet at i: \s* taking m characters (as many as it
\* can, then fewer), the capture.
RECURSIVE AfterBullet(_, _, _)
AfterBullet(text, i, m) ==
  IF m < 0 THEN NoMatch
  ELSE LET t == LazyTail(3, text, i + 1 + m, i + 1 + m, 1)
       IN  IF t.found THEN t ELSE AfterBullet(text, i, m - 1)

\* Pattern p matched at index i of text: whether it matches, where its first
\* group starts and ends, and where the match ends.
MatchAt(p, text, i) ==
  CASE p = 1 -> KeywordMatch(text, i, 1)
    [] p = 2 -> IF text[i] = Backtick THEN LazyTail(2, text, i + 1, i + 1, 1) ELSE NoMatch
    [] p = 3 -> IF text[i] \in BulletChars
                  THEN AfterBullet(text, i, RunLength(text, i + 1, RegexSpace))
                  ELSE NoMatch
    [] p = 4 -> LET dirs == {k \in 1..Len(OutputDirs) :
                               /\ LooksAt(text, i, OutputDirs[k])
                               /\ CharAt(text, i + Len(OutputDirs[k])) \in SlashChars}
                IN  IF dirs = {} THEN NoMatch
                    ELSE LET k == CHOOSE h \in dirs : \A g \in dirs : h <= g
                         IN  LazyTail(4, text, i, i + Len(OutputDirs[k]) + 1, 1)
    [] p = 5 -> IF text[i] = "." /\ CharAt(text, i + 1) \in SlashChars
                  THEN LazyTail(5, text, i, i + 2, 1) ELSE NoMatch
    [] p = 6 -> IF text[i] \in {"\"", "'"} THEN LazyTail(6, text, i + 1, i + 1, 1) ELSE NoMatch

\* pattern.exec(text) with pattern.lastIndex = lastIndex: the leftmost match
\* of pattern p that starts after the first lastIndex characters of text.
RECURSIVE exec(_, _, _)
exec(p, text, lastIndex) ==
  IF lastIndex >= Len(text) THEN NoMatch
  ELSE LET m == MatchAt(p, text, lastIndex + 1)
       IN  IF m.found THEN m ELSE exec(p, text, lastIndex + 1)

\* while ((match = pattern.exec(text)) !== null): the first groups of the
\* matches of pattern p in text, in order.
RECURSIVE ExecAll(_, _, _)
ExecAll(p, text, lastIndex) ==
  LET m == exec(p, text, lastIndex)
  IN  IF m.found THEN <<SubSeq(text, m.capStart, m.capEnd)>> \o ExecAll(p, text, m.end)
      ELSE <<>>

\* The image types of base64Pattern, in its order.
Base64Types ==
  <<<<"p", "n", "g">>,
    <<"j", "p", "e", "g">>,
    <<"j", "p", "g">>,
    <<"g", "i", "f">>,
    <<"s", "v", "g", "+", "x", "m", "l">>>>

\* base64Pattern matched at index i of text: the index its match ends at, 0
\* when it does not match.
Base64MatchAt(text, i) ==
  LET head == <<"d", "a", "t", "a", ":", "i", "m", "a", "g", "e", "/">>
      mark == <<";", "b", "a", "s", "e", "6", "4", ",">>
      t == i + Len(head)
      types == {k \in 1..Len(Base64Types) :
                  /\ LooksAtExactly(text, t, Base64Types[k])
                  /\ LooksAtExactly(text, t + Len(Base64Types[k]), mark)
                  /\ CharAt(text, t + Len(Base64Types[k]) + Len(mark)) \in Base64Chars}
  IN  IF ~LooksAtExactly(text, i, head) \/ types = {} THEN 0
      ELSE LET k == CHOOSE h \in types : \A g \in types : h <= g
               d == t + Len(Base64Types[k]) + Len(mark)
           IN  d + RunLength(text, d, Base64Chars) - 1

\* The matches of base64Pattern in text from index `from` on, in order.
RECURSIVE Base64All(_, _)
Base64All(text, from) ==
  IF from > Len(text) THEN <<>>
  ELSE LET e == Base64MatchAt(text, from)
       IN  IF e > 0 THEN <<SubSeq(text, from, e)>> \o Base64All(text, e + 1)
           ELSE Base64All(text, from + 1)

\* filePath.replace(/\\/g, '/')
ReplaceBackslashes(path) == [i \in 1..Len(path) |-> IF path[i] = "\\" THEN "/" ELSE path[i]]

\* filePath.replace(/^\.\//, '')
StripDotSlash(path) ==
  IF Len(path) >= 2 /\ path[1] = "." /\ path[2] = "/" THEN SubSeq(path, 3, Len(path)) ELSE path

\* filePath.replace(/[,;:)\]}>]+$/, '')
RECURSIVE StripTrailingPunctuation(_)
StripTrailingPunctuation(path) ==
  IF path # <<>> /\ path[Len(path)] \in {",", ";", ":", ")", "]", "}", ">"}
    THEN StripTrailingPunctuation(SubSeq(path, 1, Len(path) - 1))
    ELSE path

\* filePath.match(/\/repo\/(.+)$/): the indices where '/repo/' starts with a
\* character after it.
RepoMarks(path) ==
  {i \in 1..Len(path) : LooksAtExactly(path, i, <<"/", "r", "e", "p", "o", "/">>) /\ i + 6 <= Len(path)}

\* The path of a match after the rewriting steps: <<path>>, or <<>> when the
\* match is skipped (continue).
NormalizePath(captured) ==
  LET cleaned == StripTrailingPunctuation(StripDotSlash(ReplaceBackslashes(captured)))
      marks == RepoMarks(cleaned)
      relative ==
        IF Includes(cleaned, <<"/", "w", "o", "r", "k", "s", "p", "a", "c", "e", "s", "/">>)
          THEN IF marks = {} THEN <<>>
               ELSE LET i == CHOOSE h \in marks : \A g \in marks : h <= g
                    IN  <<SubSeq(cleaned, i + 6, Len(cleaned))>>
          ELSE <<cleaned>>
  IN  IF relative = <<>> THEN <<>>
      ELSE IF LooksAtExactly(relative[1], 1, <<"r", "e", "p", "o", "/">>)
        THEN <<SubSeq(relative[1], 6, Len(relative[1]))>>
      ELSE relative

\* (the extension taken after the first '.')
ExtensionOfFirstDot(path) ==
  LET dots == {i \in 1..Len(path) : path[i] = "."}
      first == IF dots = {} THEN 0 ELSE CHOOSE h \in dots : \A g \in dots : h <= g
  IN  ToLowerCase(SubSeq(path, first + 1, Len(path)))

\* filePath.split('.').pop()?.toLowerCase() || ''
ExtensionOf(path) ==
  LET dots == {i \in 1..Len(path) : path[i] = "."}
      last == IF dots = {} THEN 0 ELSE CHOOSE h \in dots : \A g \in dots : h >= g
  IN  ToLowerCase(SubSeq(path, last + 1, Len(path)))

\* The bucket of an extension, "" when it has none.
BucketOf(ext) ==
  IF ext \in {<<"p", "n", "g">>, <<"j", "p", "g">>, <<"j", "p", "e", "g">>, <<"g", "i", "f">>, <<"s", "v", "g">>} THEN "images"
  ELSE IF ext \in {<<"p", "d", "f">>, <<"x", "l", "s", "x">>, <<"x", "l", "s">>, <<"h", "t", "m", "l">>, <<"m", "d">>} THEN "reports"
  ELSE IF ext \in {<<"c", "s", "v">>, <<"j", "s", "o", "n">>} THEN "data"
  ELSE IF ext \in {<<"p", "y">>, <<"t", "x", "t">>} THEN "code"
  ELSE ""

\* (push without the includes test)
PushAlways(list, item) == Append(list, item)

\* if (!list.includes(item)) list.push(item)
PushUnique(list, item) ==
  IF \E i \in 1..Len(list) : list[i] = item THEN list ELSE Append(list, item)

\* The body of the inner while loop for one match.
AddMatch(files, captured) ==
  LET path == NormalizePath(captured) IN
  IF path = <<>> THEN files
  ELSE LET bucket == BucketOf(ExtensionOf(path[1])) IN
       IF bucket = "" THEN files
       ELSE [files EXCEPT ![bucket] = PushUnique(@, path[1])]

RECURSIVE AddMatches(_, _)
AddMatches(files, captures) ==
  IF captures = <<>> THEN files
  ELSE AddMatches(AddMatch(files, Head(captures)), Tail(captures))

\* patterns.forEach: the patterns from the p-th on.
RECURSIVE ForEachPattern(_, _, _)
ForEachPattern(files, text, p) ==
  IF p > 6 THEN files
  ELSE ForEachPattern(AddMatches(files, ExecAll(p, text, 0)), text, p + 1)

RECURSIVE AddBase64(_, _)
AddBase64(list, urls) ==
  IF urls = <<>> THEN list ELSE AddBase64(PushUnique(list, Head(urls)), Tail(urls))

extractFilePaths(text) ==
  ForEachPattern([images |-> <<>>, reports |-> <<>>, data |-> <<>>, code |-> <<>>,
                  base64Images |-> AddBase64(<<>>, Base64All(text, 1))],
                 text, 1)

\* --------------------------------------- extractFilePaths, step by step
\* Pieces of response text: paths as the patterns find them, and pieces no
\* pattern matches.
ExtractPieces ==
  <<<<Backtick, "o", "u", "t", "p", "u", "t", "/", "c", "h", "a", "r", "t", ".", "p", "n", "g", Backtick>>,
    <<"S", "a", "v", "e", "d", " ", "t", "o", " ", "r", "e", "p", "o", "r", "t", "s", "/", "s", "u", "m", "m", "a", "r", "y", ".", "p", "d", "f">>,
    <<"d", "a", "t", "a", ":", "i", "m", "a", "g", "e", "/", "p", "n", "g", ";", "b", "a", "s", "e", "6", "4", ",", "A", "A", "A", "A">>,
    <<"-", " ", "d", "a", "t", "a", "\\", "o", "u", "t", ".", "C", "S", "V">>,
    <<"'", ".", "/", "m", "y", " ", "p", "l", "o", "t", ".", "s", "v", "g", "'">>,
    <<"F", "i", "l", "e", ":", " ", "/", "w", "o", "r", "k", "s", "p", "a", "c", "e", "s", "/", "u", "1", "/", "r", "e", "p", "o", "/", "r", "e", "p", "o", "/", "r", "u", "n", ".", "p", "y">>,
    <<"w", "r", "o", "t", "e", " ", "/", "w", "o", "r", "k", "s", "p", "a", "c", "e", "s", "/", "u", "1", "/", "n", "o", "t", "e", "s", ".", "t", "x", "t">>,
    <<"*", " ", "r", "e", "s", "u", "l", "t", "s", "/", "t", ".", "x", "l", "s", "x">>,
    <<"c", "h", "a", "r", "t", ".", "p", "n", "g", ".", "b", "a", "k">>,
    <<"O", "u", "t", "p", "u", "t", ":", " ", "\"", "a", ".", "b", ".", "J", "S", "O", "N", "\"", ",">>,
    <<"i", "m", "a", "g", "e", " ", ".", "/", "f", "i", "g", "s", "\\", "p", ".", "g", "i", "f">>,
    <<"e", "x", "p", "o", "r", "t", "e", "d", " ", "t", "o", " ", Backtick, "r", "e", "p", "o", "/", "o", "u", "t", ".", "h", "t", "m", "l", Backtick>>,
    <<".", "/", "o", "u", "t", "p", "u", "t", "/", "c", "h", "a", "r", "t", ".", "p", "n", "g">>,
    <<"*", " ", "s", "r", "c", "\\", "m", "a", "i", "n", ".", "P", "Y">>>>

\* The three pieces of the documented example.
ExamplePieces == {ExtractPieces[1], ExtractPieces[2], ExtractPieces[3]}

\* What separates the pieces of a text.
Separators == {<<" ">>, <<"\n">>}

\* The texts extractFilePaths is called on: one piece, two pieces, or the
\* three example pieces in any order.
ExtractTexts ==
  {t : t \in
     {ExtractPieces[i] : i \in 1..Len(ExtractPieces)}
       \cup {ExtractPieces[i] \o s \o ExtractPieces[j] :
               i \in 1..Len(ExtractPieces), j \in 1..Len(ExtractPieces), s \in Separators}
       \cup {x[1] \o s \o x[2] \o s \o x[3] :
               x \in {y \in ExamplePieces \X ExamplePieces \X ExamplePieces :
                        y[1] # y[2] /\ y[1] # y[3] /\ y[2] # y[3]},
               s \in Separators}}

\* const files = { images: [], ... }
EmptyFiles ==
  [images |-> <<>>, reports |-> <<>>, data |-> <<>>, code |-> <<>>, base64Images |-> <<>>]

\* extractFilePaths(text) is called, and called again when it has returned.
\* extract.p, extract.lastIndex: the pattern of the forEach and its lastIndex;
\* extract.first: what the first call returned.
ExtractInit ==
  /\ extract \in {[pc |-> "called", text |-> t, call |-> 1, p |-> 0, lastIndex |-> 0,
                   files |-> EmptyFiles, first |-> EmptyFiles] : t \in ExtractTexts}
  /\ ChatIdle
  /\ retry = RetryIdle /\ classify = ClassifyIdle /\ auth = AuthIdle /\ conn = ConnIdle
  /\ app = AppIdle

\* The loop over base64Pattern; the patterns array is created.
ExtractBase64 ==
  /\ extract.pc = "called"
  /\ extract' = [extract EXCEPT
                   !.files = [@ EXCEPT !.base64Images = AddBase64(<<>>, Base64All(extract.text, 1))],
                   !.pc = "patterns", !.p = 1, !.lastIndex = 0]
  /\ UNCHANGED extractRest

\* One pattern.exec(text) of the inner loop, with the loop body when it
\* matches; when it does not, the forEach goes on or the function returns.
ExtractExec ==
  /\ extract.pc = "patterns"
  /\ LET m == exec(extract.p, extract.text, extract.lastIndex) IN
     IF m.found
       THEN extract' = [extract EXCEPT
                          !.files = AddMatch(@, SubSeq(extract.text, m.capStart, m.capEnd)),
                          !.lastIndex = m.end]
     ELSE IF extract.p < 6
       THEN extract' = [extract EXCEPT !.p = @ + 1, !.lastIndex = 0]
     ELSE extract' = [extract EXCEPT !.pc = "returned", !.lastIndex = 0]
  /\ UNCHANGED extractRest

\* The second call on the same text.
ExtractAgain ==
  /\ extract.pc = "returned"
  /\ extract.call = 1
  /\ extract' = [extract EXCEPT !.pc = "called", !.call = 2, !.p = 0, !.lastIndex = 0,
                                !.files = EmptyFiles, !.first = extract.files]
  /\ UNCHANGED extractRest

ExtractNext == ExtractBase64 \/ ExtractExec \/ ExtractAgain

ExtractSpec == ExtractInit /\ [][ExtractNext]_vars

\* =============================================================== claims
\* The sends whose POST /api/chat (sendMessage) has not settled yet.
SendsInFlight == {k \in 1..Len(sends) : sends[k].pc = "post"}

\* The messages of a list that satisfy a test, counted.
CountMessages(msgs, Test(_)) == Cardinality({i \in 1..Len(msgs) : Test(msgs[i])})

\* C1: in every reachable state at most one chat send is in flight (a call of
\* sendUserMessage made while an earlier send is unsettled is rejected by the
\* loading flag).
C1_AtMostOneSendInFlight == Cardinality(SendsInFlight) <= 1

\* C2: an accepted send appends exactly one user message with the trimmed
\* text; when its chat request settles, exactly one assistant message carrying
\* its response is in the list if it succeeded, and none is in the list while
\* its user message is still there if it failed.
C2_Accepted(k) ==
  Len(sends') = k /\ Len(sends) = k - 1
    => /\ CountMessages(messages', LAMBDA m : m.role = "user" /\ m.send = k) = 1
       /\ CountMessages(messages, LAMBDA m : m.role = "user" /\ m.send = k) = 0
       /\ \E i \in 1..Len(messages') :
            /\ messages'[i].role = "user"
            /\ messages'[i].send = k
            /\ messages'[i].content = Trim(sends'[k].content)

C2_Settled(k) ==
  k \in SendsInFlight /\ sends'[k].pc # "post"
    => IF sends'[k].outcome = "ok"
         THEN CountMessages(messages', LAMBDA m : m.role = "assistant" /\ ~m.isStreaming
                                                   /\ m.send = k /\ m.content = <<"r">>) = 1
         ELSE /\ CountMessages(messages', LAMBDA m : m.role = "assistant" /\ ~m.isStreaming
                                                      /\ m.send = k) = 0
              /\ CountMessages(messages', LAMBDA m : m.role = "user" /\ m.send = k) = 1

C2_OneUserOneAssistant ==
  [][\A k \in 1..MaxSends : C2_Accepted(k) /\ C2_Settled(k)]_vars

\* What a call may change: the hook's state, the requests in flight, the
\* polling timer, the stored token and the backend.
programVars ==
  <<messages, sessions, currentSessionId, workspacePath, isLoading, progress, error,
    progressIntervalRef, timers, token, sends, switches, removes, refreshes, polls,
    srvSessions>>

\* C3: sendUserMessage called with empty or whitespace-only text, or while the
\* loading flag is set, changes no state, issues no request and starts or
\* stops no timer.
C3_RejectedSendChangesNothing ==
  [][\A content \in Texts :
       (Trim(content) = <<>> \/ isLoading) /\ sendUserMessage(content)
         => UNCHANGED programVars]_vars

\* A call of sendUserMessage has just returned at the guard while a send was
\* in flight.
C3_Witness == noop = "sendUserMessage" /\ isLoading /\ SendsInFlight # {}

\* C4: the last step of every accepted send, whether its chat request
\* succeeded or failed, clears the loading flag and stops progress polling
\* (handle null, no timer, progress null); and when the backend answers or
\* fails every request, every accepted send reaches that step.
C4_FinalStep ==
  \A k \in 1..Len(sends) :
    sends[k].pc # "done" /\ sends'[k].pc = "done"
      => /\ isLoading' = FALSE
         /\ progressIntervalRef' = 0
         /\ timers' = {}
         /\ progress' = Null

C4_SendEndsCleared ==
  /\ [][C4_FinalStep]_vars
  /\ \A k \in 1..MaxSends :
       (Len(sends) >= k /\ sends[k].pc # "done") ~> (Len(sends) >= k /\ sends[k].pc = "done")

\* A send whose chat request succeeded and one whose chat request failed have
\* both returned.
C4_Witness ==
  /\ \E k \in 1..Len(sends) : sends[k].pc = "done" /\ sends[k].outcome = "ok"
  /\ \E k \in 1..Len(sends) : sends[k].pc = "done" /\ sends[k].outcome = "failed"

\* C5: once every accepted send has executed its final step, and until a
\* later send starts a polling loop, the visible progress is null, whatever
\* progress fetches were still awaiting their response when polling stopped.
C5_ProgressStaysCleared ==
  (sends # <<>> /\ \A k \in 1..Len(sends) : sends[k].pc = "done") => progress = Null

\* C6: the visible progress is null or has status in_progress, completed or
\* error, never not_found; a fetch that resolves to not_found, or whose
\* request fails, leaves the visible progress as it was.
C6_NotFoundNeverShown ==
  /\ [](progress \in {Null, "in_progress", "completed", "error"})
  /\ [][\A f \in BagToSet(polls), e \in OtherErrors :
          PollDone(f, TRUE, "not_found", e) \/ PollDone(f, FALSE, "not_found", e)
            => progress' = progress]_vars

\* Progress is shown while a fetch awaits its response.
C6_Witness == progress # Null /\ PollsInFlight > 0

\* C7: at most one interval timer of the progress poller is live, one is live
\* exactly when the stored handle is non-null, and the live one is the one
\* the handle names (no timer of a superseded loop is left to fire).
C7_AtMostOneTimer ==
  /\ Cardinality(timers) <= 1
  /\ Cardinality(timers) = 1 <=> progressIntervalRef # 0
  /\ \A t \in timers : t.id = progressIntervalRef

\* Send 1 started a loop when it was accepted and a second one when its
\* response arrived; the initial fetches of both are in flight and no timer
\* is left.
C7_Witness ==
  /\ \E f, g \in BagToSet(polls) : f.loop = IntervalHandle(1, 1) /\ g.loop = IntervalHandle(1, 2)
  /\ timers = {}
  /\ progressIntervalRef = 0

\* The banner text the catch block shows for a response status.
C8_Banner(e) == IF e = "e503" THEN MsgGateway ELSE MsgAuth

\* C8: when the chat request of a send fails, the trailing message is removed
\* iff it is a streaming placeholder, the send's user message stays in the
\* list, error becomes the classified message, and currentSessionId and
\* workspacePath keep their values.
C8_FailureStep(k, outcomes) ==
  LET n == Len(messages)
      thrown == CHOOSE e \in ChatErrors :
                  \E i \in 1..(MAX_RETRIES + 1) :
                    outcomes[i] = e /\ \A j \in (i + 1)..(MAX_RETRIES + 1) : outcomes[j] = "ok"
  IN  /\ messages' = IF n > 0 /\ messages[n].isStreaming
                       THEN SubSeq(messages, 1, n - 1) ELSE messages
      /\ \A i \in 1..n :
           messages[i].role = "user" /\ messages[i].send = k
             => i <= Len(messages') /\ messages'[i] = messages[i]
      /\ error' = C8_Banner(thrown)
      /\ currentSessionId' = currentSessionId
      /\ workspacePath' = workspacePath

C8_FailureRollsBack ==
  [][\A k \in 1..MaxSends, outcomes \in AttemptOutcomes :
       SendChatFailure(k, outcomes) => C8_FailureStep(k, outcomes)]_vars

\* A send has failed: its user message is the whole list, the banner is set.
C8_Witness ==
  \E k \in 1..Len(sends) :
    /\ sends[k].pc = "done"
    /\ sends[k].outcome = "failed"
    /\ messages = <<UserMessage(k, sends[k].content)>>
    /\ error = MsgGateway

\* C9: when a send succeeds, the finalized assistant message is written at the
\* last position, and only if the message there is a streaming placeholder;
\* otherwise the list is unchanged. No other position changes.
C9_SuccessStep(k) ==
  LET n == Len(messages) IN
  IF n > 0 /\ messages[n].isStreaming
    THEN /\ Len(messages') = n
         /\ \A i \in 1..(n - 1) : messages'[i] = messages[i]
         /\ messages'[n] = [role |-> "assistant", content |-> <<"r">>, timestamp |-> TRUE,
                            isStreaming |-> FALSE, tool_calls |-> <<"t">>, send |-> k]
    ELSE messages' = messages

C9_ReplacesOnlyPlaceholder ==
  [][\A k \in 1..MaxSends, outcomes \in AttemptOutcomes, sid \in SessionIds, wp \in BOOLEAN :
       SendChatSuccess(k, outcomes, sid, IF wp THEN WorkspaceOf[sid] ELSE Null)
         => C9_SuccessStep(k)]_vars

\* A send has succeeded and the list holds a fetched history, none of whose
\* messages is the send's.
C9_Witness ==
  \E k \in 1..Len(sends) :
    /\ sends[k].outcome = "ok"
    /\ messages # <<>>
    /\ \A i \in 1..Len(messages) : messages[i].send = 0

\* C10: the message list holds at most one streaming placeholder, and if one
\* is there it is the last element.
C10_PlaceholderOnlyLast ==
  \A i \in 1..Len(messages) : messages[i].isStreaming => i = Len(messages)

\* The ids of the cached session list.
CachedIds == [i \in 1..Len(sessions) |-> sessions[i].id]

\* The ids GET /api/sessions lists when it is answered in this state.
ListedIds == SelectSeq(SessionOrder, LAMBDA s : s \in srvSessions)

\* The progress fetch send k issues when it restarts polling for sid.
C11_Restarted(k, sid) ==
  polls' = IF sid # sends[k].session_id
             THEN polls (+) SetToBag({[loop |-> IntervalHandle(k, 2), sessionId |-> sid]})
             ELSE polls

\* C11: when the chat request of a send succeeds, currentSessionId becomes the
\* returned id, workspacePath the returned path when there is one, the session
\* list is refreshed, and once the refresh has returned polling is restarted
\* for the returned id iff it differs from the id the call captured.
C11_SuccessStep(k, sid, wp) ==
  /\ currentSessionId' = sid
  /\ workspacePath' = IF wp # Null THEN wp ELSE workspacePath
  /\ IF token
       THEN sends'[k].pc = "refresh" /\ polls' = polls
       ELSE sessions' = <<>> /\ C11_Restarted(k, sid)

C11_RefreshStep(k, ok) ==
  /\ ok => [i \in 1..Len(sessions') |-> sessions'[i].id] = ListedIds
  /\ C11_Restarted(k, sends[k].response_id)
  /\ UNCHANGED <<currentSessionId, workspacePath>>

C11_SuccessAdoptsSession ==
  [][/\ \A k \in 1..MaxSends, outcomes \in AttemptOutcomes, sid \in SessionIds, wp \in BOOLEAN :
          SendChatSuccess(k, outcomes, sid, IF wp THEN WorkspaceOf[sid] ELSE Null)
            => C11_SuccessStep(k, sid, IF wp THEN WorkspaceOf[sid] ELSE Null)
     /\ \A k \in 1..MaxSends, ok \in BOOLEAN, e \in OtherErrors :
          SendRefreshed(k, ok, e) => C11_RefreshStep(k, ok)]_vars

\* Send 1, made in a new chat, has succeeded and returned: the returned
\* session is current with its workspace path, it is in the cached list, and
\* the fetch of the restarted polling loop is in flight.
C11_Witness ==
  /\ Len(sends) >= 1 /\ sends[1].pc = "done" /\ sends[1].outcome = "ok"
  /\ currentSessionId # Null
  /\ workspacePath = WorkspaceOf[currentSessionId]
  /\ \E i \in 1..Len(sessions) : sessions[i].id = currentSessionId
  /\ \E f \in BagToSet(polls) :
       f.loop = IntervalHandle(1, 2) /\ f.sessionId = currentSessionId

\* C12: switchSession(id) with id the current session issues no request and
\* changes no state (messages, currentSessionId, workspacePath, isLoading,
\* error, progress and the polling timer included).
C12_SwitchToCurrentChangesNothing ==
  [][\A sessionId \in SessionIds :
       sessionId = currentSessionId /\ switchSession(sessionId)
         => UNCHANGED programVars]_vars

\* switchSession has just returned at its guard, called with the session a
\* send made current.
C12_Witness ==
  /\ noop = "switchSession"
  /\ currentSessionId \in SessionIds
  /\ messages # <<>>

\* The workspace path the cached session list holds for id, if any.
C13_CachedWorkspace(id) ==
  LET paths == {sessions[i].workspace_path : i \in {j \in 1..Len(sessions) : sessions[j].id = id}}
  IN  IF paths \ {Null} # {} THEN CHOOSE w \in paths \ {Null} : TRUE ELSE Null

\* C13: switchSession(id) with id not the current session sets isLoading,
\* clears error and stops polling, then fetches the history of id (with the
\* cached list's workspace path for id in hand); when the fetch succeeds the
\* message list becomes that history, currentSessionId becomes id,
\* workspacePath becomes the cached path if there is one, isLoading is cleared.
C13_CallStep(id) ==
  /\ isLoading' = TRUE
  /\ error' = Null
  /\ timers' = {} /\ progressIntervalRef' = 0 /\ progress' = Null
  /\ switches' = switches (+) SetToBag({[sessionId |-> id,
                                         workspace_path |-> C13_CachedWorkspace(id)]})
  /\ UNCHANGED <<messages, currentSessionId, workspacePath>>

C13_LoadedStep(c) ==
  /\ messages' = HistoryOf(c.sessionId)
  /\ currentSessionId' = c.sessionId
  /\ workspacePath' = IF c.workspace_path # Null THEN c.workspace_path ELSE workspacePath
  /\ isLoading' = FALSE
  /\ switches' = switches (-) SetToBag({c})

C13_SwitchLoadsHistory ==
  [][/\ \A id \in SessionIds :
          id # currentSessionId /\ switchSession(id) => C13_CallStep(id)
     /\ \A c \in BagToSet(switches) : SwitchLoaded(c) => C13_LoadedStep(c)]_vars

\* A switch to s1 has loaded its history and adopted the workspace path of
\* the cached list (no send has been made that could have set it).
C13_Witness ==
  /\ sends = <<>>
  /\ currentSessionId = SessionOrder[1]
  /\ messages = HistoryOf(SessionOrder[1])
  /\ workspacePath = ListedWorkspace[SessionOrder[1]]
  /\ ~isLoading

\* C14: when the history fetch of switchSession(id) fails, error becomes the
\* failure's message and isLoading is cleared; neither the call nor the
\* failure changes messages, currentSessionId or workspacePath.
C14_SwitchFailureKeepsSession ==
  [][/\ \A id \in SessionIds :
          id # currentSessionId /\ switchSession(id)
            => UNCHANGED <<messages, currentSessionId, workspacePath>>
     /\ \A c \in BagToSet(switches), e \in OtherErrors :
          SwitchFailed(c, e)
            => /\ error' = (IF e = "eNetwork" THEN "Network Error"
                            ELSE "Request failed with status code 401")
               /\ isLoading' = FALSE
               /\ UNCHANGED <<messages, currentSessionId, workspacePath>>]_vars

\* A switch away from the session a send had made current has failed: the
\* banner shows the failure and that session is still the current one.
C14_Witness ==
  /\ error = "Network Error"
  /\ ~isLoading
  /\ currentSessionId \in SessionIds
  /\ messages # <<>>
  /\ switches = EmptyBag

\* C15: when removeSession(id), called with id the current session, completes
\* after the deletion, messages, currentSessionId, workspacePath, error and
\* the progress poller are as startNewChat() leaves them, and the cached
\* session list does not contain id.
C15_AsAfterNewChat(id) ==
  /\ messages' = <<>>
  /\ currentSessionId' = Null
  /\ workspacePath' = Null
  /\ error' = Null
  /\ progress' = Null /\ timers' = {} /\ progressIntervalRef' = 0
  /\ \A i \in 1..Len(sessions') : sessions'[i].id # id

C15_RemoveCurrentResets ==
  [][\A c \in BagToSet(removes) :
       c.sessionId = c.currentSessionId
       /\ \/ ~isAuthenticated /\ RemoveDeleted(c)
          \/ \E ok \in BOOLEAN, e \in OtherErrors : RemoveRefreshed(c, ok, e)
       => C15_AsAfterNewChat(c.sessionId)]_vars

\* removeSession's refreshSessions() has been called for the call c: its list
\* request is in flight or, without a token, the cache has been emptied.
C16_RefreshCalled(c) ==
  IF token THEN BagIn([c EXCEPT !.pc = "refresh"], removes') /\ UNCHANGED sessions
           ELSE sessions' = <<>>

\* Whether the conversation is reset depends on id having been the current
\* session when the call was made.
C16_ResetIffCurrent(c) ==
  IF c.sessionId = c.currentSessionId
    THEN /\ messages' = <<>> /\ currentSessionId' = Null /\ workspacePath' = Null
         /\ error' = Null
         /\ progress' = Null /\ timers' = {} /\ progressIntervalRef' = 0
    ELSE UNCHANGED <<messages, currentSessionId, workspacePath, error, progress, timers,
                     progressIntervalRef>>

\* A failure leaves the banner and the conversation alone.
C16_FailureSilent ==
  \A c \in BagToSet(removes), e \in OtherErrors :
    RemoveFailed(c, e) \/ RemoveRefreshed(c, FALSE, e)
      => UNCHANGED <<error, messages, currentSessionId, workspacePath, sessions>>

\* C16 as stated: whenever the delete request of removeSession(id) has been
\* answered or has failed, the session list is refreshed, whether or not id
\* was current; the conversation is reset only when id was current; failures
\* of the delete or of the refresh set no error and leave the conversation.
C16_AlwaysRefreshes ==
  [][/\ \A c \in BagToSet(removes) :
          /\ RemoveDeleted(c) => C16_RefreshCalled(c) /\ C16_ResetIffCurrent(c)
          /\ \A e \in OtherErrors : RemoveFailed(c, e) => C16_RefreshCalled(c)
     /\ C16_FailureSilent]_vars

\* C16, amended: when the delete request succeeds the session list is
\* refreshed (the cache takes the answer when the refresh succeeds), whether
\* or not id was current, and the conversation is reset iff id was current;
\* when the delete request fails the call ends without a refresh; failures of
\* the delete or of the refresh set no error and leave the conversation.
C16_RefreshesAfterDeletion ==
  [][/\ \A c \in BagToSet(removes) :
          /\ RemoveDeleted(c) => C16_RefreshCalled(c) /\ C16_ResetIffCurrent(c)
          /\ RemoveRefreshed(c, TRUE, "eNetwork")
               => [i \in 1..Len(sessions') |-> sessions'[i].id] = ListedIds
          /\ \A e \in OtherErrors :
               RemoveFailed(c, e) => removes' = removes (-) SetToBag({c}) /\ UNCHANGED refreshes
     /\ C16_FailureSilent]_vars

\* s1, not the current session, has been removed and the list refreshed: the
\* cache lists s2 alone and the conversation of s2 is as it was.
C16_Witness ==
  /\ removes = EmptyBag
  /\ SessionOrder[1] \notin srvSessions
  /\ CachedIds = <<SessionOrder[2]>>
  /\ currentSessionId = SessionOrder[2]
  /\ messages # <<>>

C18_RefreshSessions ==
  [][/\ refreshSessions
          => IF ~token
               THEN /\ sessions' = <<>>
                    /\ UNCHANGED <<refreshes, sends, switches, removes, polls>>
               ELSE /\ refreshes' = refreshes + 1
                    /\ UNCHANGED sessions
     /\ RefreshDone(TRUE, "eNetwork")
          => /\ [i \in 1..Len(sessions') |-> sessions'[i].id] = ListedIds
             /\ \A i \in 1..Len(sessions') :
                  sessions'[i].workspace_path = ListedWorkspace[sessions'[i].id]
     /\ \A e \in OtherErrors :
          RefreshDone(FALSE, e)
            => UNCHANGED <<messages, sessions, currentSessionId, workspacePath, isLoading,
                           progress, error, progressIntervalRef, timers>>]_vars

\* refreshSessions() was called after a 401 answer to a send had removed the
\* token: the cache is empty though the backend has sessions, and no list
\* request is in flight.
C18_Witness ==
  /\ ~token
  /\ sessions = <<>>
  /\ srvSessions # {}
  /\ refreshes = 0
  /\ nCalls = 1 /\ noop = "" /\ removes = EmptyBag /\ switches = EmptyBag
  /\ error = MsgAuth

\* The run of withRetry has ended and, if it threw, the banner is chosen.
RetryEnded == retry.pc \in {"returned", "surfaced"}

\* C19: a chat request answered 503 on every attempt is issued exactly three
\* times, with a delay of 2000 ms before the second attempt and 4000 ms before
\* the third, and the send then shows the gateway-unavailable message; one
\* answered 400 on the first attempt is issued once, with no delay, and the
\* send shows the raw error message.
C19_AllGateway == \A i \in 1..(MAX_RETRIES + 1) : retry.outcomes[i] = "e503"

C19_FirstBadRequest == retry.outcomes[1] = "e400"

C19_GatewayRetriedTwice ==
  /\ [](retry.pc # "idle" /\ C19_AllGateway
          => /\ retry.calls <= 3
             /\ retry.pc \in {"thrown", "surfaced"}
                  => retry.calls = 3 /\ retry.delays = <<2000, 4000>> /\ retry.thrown = "e503"
             /\ retry.pc = "surfaced" => retry.banner = MsgGateway)
  /\ [](retry.pc # "idle" /\ C19_FirstBadRequest
          => /\ retry.calls <= 1 /\ retry.delays = <<>>
             /\ retry.pc # "call" => retry.calls = 1 /\ retry.thrown = "e400"
             /\ retry.pc = "surfaced"
                  => retry.banner = "Request failed with status code 400")
  /\ (retry.pc # "idle" /\ (C19_AllGateway \/ C19_FirstBadRequest)) ~> (retry.pc = "surfaced")

\* Three 503 answers have been received and the banner is shown.
C19_Witness == C19_AllGateway /\ retry.pc = "surfaced" /\ retry.calls = 3

\* The failure the operation's current call ends with, Null when it resolves.
C20_Failure == IF retry.outcomes[retry.attempt + 1] = "ok" THEN Null
               ELSE retry.outcomes[retry.attempt + 1]

\* A call of the operation is followed by a delay and another call.
C20_Reissues == RetryCall /\ retry'.pc = "delay"

C21_Rules ==
  <<[keywords |-> {<<"t", "i", "m", "e", "o", "u", "t">>,
                   <<"e", "c", "o", "n", "n", "a", "b", "o", "r", "t", "e", "d">>},
     text |-> "Request timed out. Claude Code is still processing - please wait and try again in a moment."],
    [keywords |-> {<<"n", "e", "t", "w", "o", "r", "k">>,
                   <<"e", "c", "o", "n", "n", "r", "e", "f", "u", "s", "e", "d">>,
                   <<"e", "n", "o", "t", "f", "o", "u", "n", "d">>},
     text |-> "Network error. Please check your connection and try again."],
    [keywords |-> {<<"5", "0", "2">>, <<"5", "0", "3">>, <<"5", "0", "4">>},
     text |-> "Server temporarily unavailable. Please try again in a few seconds."],
    [keywords |-> {<<"a", "u", "t", "h", "e", "n", "t", "i", "c", "a", "t", "i", "o", "n">>,
                   <<"4", "0", "1">>},
     text |-> "Authentication error. The server may need to re-authenticate with Claude."]>>

\* The rules a message matches, by their position in C21_Rules.
C21_Matching(message) ==
  {i \in 1..Len(C21_Rules) :
     \E kw \in C21_Rules[i].keywords : Includes(ToLowerCase(message), kw)}

\* C21: the error shown by the catch block of sendUserMessage is the text of
\* the first rule, in the order timeout, network, gateway, authentication,
\* that the lower-cased message of the thrown Error matches, the message itself
\* when it matches none, and 'Failed to send message' when the thrown value is
\* not an Error.
C21_FirstMatchingRule ==
  classify.pc = "shown"
    => LET matching == C21_Matching(classify.message) IN
       IF ~classify.isError
         THEN classify.errorMessage = [text |-> "Failed to send message", raw |-> <<>>]
       ELSE IF matching = {}
         THEN classify.errorMessage = [text |-> "", raw |-> classify.message]
       ELSE \E i \in matching :
              /\ \A j \in matching : i <= j
              /\ classify.errorMessage = [text |-> C21_Rules[i].text, raw |-> <<>>]

\* An Error whose message matches the authentication rule and then the
\* timeout rule has been classified.
C21_Witness ==
  /\ classify.pc = "shown" /\ classify.isError
  /\ classify.message = <<"4", "0", "1", "t", "i", "m", "e", "o", "u", "t">>
  /\ C21_Matching(classify.message) = {1, 4}

\* A request is answered 401.
C22_Rejected401(r) == AuthReject(r, "e401")

\* C22: a 401 answer to any request of the HTTP client removes the stored
\* token and the stored user, and the request's caller gets the error (the
\* request is not issued again); while no token is stored, requests carry no
\* Authorization header and the guarded calls (refreshSessions, the connection
\* check) issue no request; a token is stored again only by a login, register
\* or refreshToken that succeeds.
C22_UnauthorizedClearsStorage ==
  /\ [][\A r \in auth.inflight :
          C22_Rejected401(r)
            => /\ ~auth'.token /\ ~auth'.user
               /\ auth'.last = [event |-> "thrown", op |-> r.op, error |-> "e401"]
               /\ \A q \in auth'.inflight : q.id # r.id]_vars
  /\ [][auth.pc = "run" /\ ~auth.token
          => /\ \A q \in auth'.inflight \ auth.inflight : q.stage = "sent" => ~q.header
             /\ \A op \in GuardedOps : AuthCall(op) => auth'.inflight = auth.inflight
             /\ auth'.token
                  => auth'.last.event = "resolved" /\ auth'.last.op \in StoringOps]_vars

\* After a 401 removed the token, the connection check was called and issued
\* no request.
C22_Witness ==
  /\ auth.pc = "run" /\ auth.clearedBy = "401" /\ ~auth.token /\ ~auth.user
  /\ auth.last = [event |-> "skipped", op |-> "checkConnection"]

\* A step that runs checkConnection: the mount effect or a tick of the interval.
C23_CheckStarts == ConnMount \/ ConnTick

\* C23: connectionStatus is 'checking' until the first check has set it; a
\* check (at mount, then on a tick of the interval) sets 'disconnected' and
\* issues no request when no token is stored, and otherwise issues one GET
\* /api/sessions with a timeout of 5000 ms and leaves the status alone until
\* the answer, which sets 'connected' on success and 'disconnected' on any
\* failure, a timeout included.
C23_ConnectionStatus ==
  /\ [](conn.pc # "idle" /\ conn.resolved = 0 => conn.status = "checking")
  /\ [](conn.pc = "rendered" => conn.checks = 0 /\ conn.check = <<>>)
  /\ [][C23_CheckStarts /\ ~token
          => /\ conn'.status = "disconnected"
             /\ conn'.check = <<>> /\ conn.check = <<>>
             /\ conn'.resolved = conn.resolved + 1]_vars
  /\ [][C23_CheckStarts /\ token
          => /\ conn'.check = <<[method |-> "GET", url |-> "/api/sessions", timeout |-> 5000]>>
             /\ conn.check = <<>>
             /\ conn'.status = conn.status]_vars
  /\ [][C23_CheckStarts => conn'.checks = conn.checks + 1]_vars
  /\ [][ConnCheckDone(TRUE, "eNetwork") => conn'.status = "connected"]_vars
  /\ [][\A e \in CheckErrors :
          ConnCheckDone(FALSE, e) => conn'.status = "disconnected" /\ conn'.check = <<>>]_vars
  /\ [][conn'.status # conn.status
          => C23_CheckStarts \/ \E ok \in BOOLEAN, e \in CheckErrors : ConnCheckDone(ok, e)]_vars

\* The request of the interval's check has timed out.
C23_Witness ==
  /\ conn.pc = "mounted" /\ conn.status = "disconnected" /\ conn.last = "eTimeout"
  /\ conn.checks = 2 /\ conn.resolved = 2 /\ token

\* handleSend has called onSend: a send was accepted in this step.
C24_OnSendInvoked == Len(sends') = Len(sends) + 1

\* C24: ChatInput.handleSend calls onSend, with the trimmed input, exactly
\* when the trimmed input is not empty, isLoading is false and the status is
\* not 'disconnected' ('checking' included); the progress poller's tick,
\* refreshSessions, switchSession and removeSession can be taken at every
\* value of the status on the same conditions, and leave the status alone.
C24_StatusGatesInputOnly ==
  /\ [][\A input \in Texts :
          handleSend(input)
            => /\ C24_OnSendInvoked
                    <=> /\ Trim(input) # <<>>
                        /\ ~isLoading
                        /\ conn.status \in {"checking", "connected"}
               /\ C24_OnSendInvoked => sends'[Len(sends')].content = Trim(input)]_vars
  /\ [](conn.pc = "mounted"
          => /\ (ENABLED refreshSessions) <=> nCalls < MaxCalls
             /\ \A sessionId \in SessionIds :
                  /\ (ENABLED switchSession(sessionId)) <=> nCalls < MaxCalls
                  /\ (ENABLED removeSession(sessionId)) <=> nCalls < MaxCalls
             /\ \A t \in timers : (ENABLED PollTick(t)) <=> PollsInFlight < MaxPolls)
  /\ [][(\/ refreshSessions
         \/ \E sessionId \in SessionIds : switchSession(sessionId) \/ removeSession(sessionId)
         \/ \E t \in timers : PollTick(t)
         \/ \E f \in BagToSet(polls), ok \in BOOLEAN, status \in ProgressStatuses, e \in OtherErrors :
              PollDone(f, ok, status, e))
          => conn' = conn]_vars

\* The status is 'disconnected' and a message typed while nothing is loading
\* was not sent.
C24_Witness ==
  /\ conn.status = "disconnected" /\ noop = "handleSend, disabled"
  /\ ~isLoading /\ sends = <<>>

C25_Buckets == {"images", "reports", "data", "code", "base64Images"}

\* No entry of list occurs in it twice.
C25_NoDuplicates(list) ==
  \A i \in 1..Len(list), j \in 1..Len(list) : list[i] = list[j] => i = j

\* The entries of list, as a set.
C25_Entries(list) == {list[i] : i \in 1..Len(list)}

\* C25: two calls of extractFilePaths on the same text return equal buckets
\* (entry for entry, in the same order), each call starts from empty buckets
\* and from lastIndex 0 whatever the call before did, no bucket ever holds a
\* path twice, and no path is in two buckets; the result is the one the
\* function computes in one go.
C25_PureAndDeduplicated ==
  extract.pc # "idle"
    => /\ extract.pc = "returned" /\ extract.call = 2 => extract.files = extract.first
       /\ extract.pc = "returned" => extract.files = extractFilePaths(extract.text)
       /\ extract.pc = "called"
            => extract.files = EmptyFiles /\ extract.lastIndex = 0 /\ extract.p = 0
       /\ \A b \in C25_Buckets : C25_NoDuplicates(extract.files[b])
       /\ \A b \in C25_Buckets, c \in C25_Buckets :
            b # c => C25_Entries(extract.files[b]) \cap C25_Entries(extract.files[c]) = {}

\* The second call has returned for a text in which the same path is written
\* twice, once in backticks and once after ./, and is matched by three rules.
C25_Witness ==
  /\ extract.pc = "returned" /\ extract.call = 2
  /\ extract.text = ExtractPieces[1] \o <<" ">> \o ExtractPieces[13]
  /\ extract.files.images = <<SubSeq(ExtractPieces[13], 3, Len(ExtractPieces[13]))>>
  /\ Len(ExecAll(2, extract.text, 0)) + Len(ExecAll(4, extract.text, 0))
       + Len(ExecAll(5, extract.text, 0)) = 4

\* The texts of the example: its three pieces in any order, separated by
\* spaces or by newlines.
C26_Texts ==
  {x[1] \o s \o x[2] \o s \o x[3] :
     x \in {y \in ExamplePieces \X ExamplePieces \X ExamplePieces :
              y[1] # y[2] /\ y[1] # y[3] /\ y[2] # y[3]},
     s \in Separators}

\* C26: for a text made of `output/chart.png` in backticks, 'Saved to
\* reports/summary.pdf' and 'data:image/png;base64,AAAA', extractFilePaths
\* returns images = [output/chart.png], reports = [reports/summary.pdf],
\* base64Images = [data:image/png;base64,AAAA], and data and code empty.
C26_DocumentedExample ==
  extract.pc = "returned" /\ extract.text \in C26_Texts
    => extract.files =
         [images |-> <<<<"o", "u", "t", "p", "u", "t", "/", "c", "h", "a", "r", "t", ".", "p", "n", "g">>>>,
          reports |-> <<<<"r", "e", "p", "o", "r", "t", "s", "/", "s", "u", "m", "m", "a", "r", "y", ".", "p", "d", "f">>>>,
          data |-> <<>>,
          code |-> <<>>,
          base64Images |-> <<<<"d", "a", "t", "a", ":", "i", "m", "a", "g", "e", "/", "p", "n", "g", ";", "b", "a", "s", "e", "6", "4", ",", "A", "A", "A", "A">>>>]

\* The call has returned for the example text, its pieces in the order of the
\* documentation.
C26_Witness ==
  /\ extract.pc = "returned" /\ extract.call = 1
  /\ extract.text = ExtractPieces[1] \o <<" ">> \o ExtractPieces[2] \o <<" ">> \o ExtractPieces[3]
  /\ Cardinality(C26_Texts) = 12

\* The match the exec of this step finds.
C27_Match == exec(extract.p, extract.text, extract.lastIndex)

\* The path a rule has matched, as it stands in the text.
C27_Matched == SubSeq(extract.text, C27_Match.capStart, C27_Match.capEnd)

\* s has word at index i.
C27_HasAt(s, i, word) ==
  i >= 1 /\ i + Len(word) - 1 <= Len(s) /\ SubSeq(s, i, i + Len(word) - 1) = word

\* The index after the first '/repo/' of s that has text after it, 0 if none.
C27_AfterRepo(s) ==
  LET at == {i \in 1..(Len(s) - 6) : C27_HasAt(s, i, <<"/", "r", "e", "p", "o", "/">>)}
  IN  IF at = {} THEN 0 ELSE 6 + CHOOSE i \in at : \A j \in at : i <= j

\* The normalized path of a matched path, in a sequence that is empty when
\* the path is dropped: backslashes become '/', a leading './' goes, a path
\* with '/workspaces/' in it is cut to what follows '/repo/', and one leading
\* 'repo/' goes.
C27_Normalized(matched) ==
  LET slashed == [i \in 1..Len(matched) |-> IF matched[i] = "\\" THEN "/" ELSE matched[i]]
      s == IF C27_HasAt(slashed, 1, <<".", "/">>) THEN SubSeq(slashed, 3, Len(slashed))
           ELSE slashed
      absolute == \E i \in 1..Len(s) :
                    C27_HasAt(s, i, <<"/", "w", "o", "r", "k", "s", "p", "a", "c", "e", "s", "/">>)
      r == IF ~absolute THEN <<s>>
           ELSE IF C27_AfterRepo(s) = 0 THEN <<>>
           ELSE <<SubSeq(s, C27_AfterRepo(s), Len(s))>>
  IN  IF r # <<>> /\ C27_HasAt(r[1], 1, <<"r", "e", "p", "o", "/">>)
        THEN <<SubSeq(r[1], 6, Len(r[1]))>>
        ELSE r

\* The bucket of a normalized path: by the lower-cased text after its last
\* '.', "" when that names no bucket.
C27_Bucket(path) ==
  LET dots == {i \in 1..Len(path) : path[i] = "."}
      ext == IF dots = {} THEN ToLowerCase(path)
             ELSE ToLowerCase(SubSeq(path, 1 + CHOOSE i \in dots : \A j \in dots : i >= j, Len(path)))
  IN  CASE ext \in {<<"p", "n", "g">>, <<"j", "p", "g">>, <<"j", "p", "e", "g">>,
                    <<"g", "i", "f">>, <<"s", "v", "g">>} -> "images"
        [] ext \in {<<"p", "d", "f">>, <<"x", "l", "s", "x">>, <<"x", "l", "s">>,
                    <<"h", "t", "m", "l">>, <<"m", "d">>} -> "reports"
        [] ext \in {<<"c", "s", "v">>, <<"j", "s", "o", "n">>} -> "data"
        [] ext \in {<<"p", "y">>, <<"t", "x", "t">>} -> "code"
        [] OTHER -> ""

\* C27: a path matched by a rule is put, normalized, in the bucket its
\* lower-cased extension names and in no other, or in none when it is dropped
\* or its extension names no bucket; the path returned has no backslash, is
\* what follows '/repo/' when the matched path had '/workspaces/' in it, and
\* has lost one leading 'repo/'.
C27_BucketByExtension ==
  /\ [][ExtractExec /\ C27_Match.found
          => LET path == C27_Normalized(C27_Matched)
                 bucket == IF path = <<>> THEN "" ELSE C27_Bucket(path[1])
                 files == extract.files
             IN  IF bucket = "" THEN extract'.files = files
                 ELSE /\ extract'.files[bucket] =
                           IF path[1] \in C25_Entries(files[bucket]) THEN files[bucket]
                           ELSE Append(files[bucket], path[1])
                      /\ \A b \in C25_Buckets \ {bucket} : extract'.files[b] = files[b]]_vars
  /\ [](extract.pc # "idle"
          => \A b \in {"images", "reports", "data", "code"} :
               \A path \in C25_Entries(extract.files[b]) :
                 /\ C27_Bucket(path) = b
                 /\ \A i \in 1..Len(path) : path[i] # "\\")

\* The call has returned for a text with a workspace path that has 'repo/'
\* twice: the path returned is what follows them.
C27_Witness ==
  /\ extract.pc = "returned"
  /\ extract.text = ExtractPieces[6]
  /\ extract.files.code = <<<<"r", "u", "n", ".", "p", "y">>>>
  /\ C27_Normalized(SubSeq(ExtractPieces[6], 7, Len(ExtractPieces[6]))) = extract.files.code

\* ------------------------------------------------------------------ C28
\* Send k awaits its chat request, which it made with session_id null.
C28_NullSendInFlight(k) ==
  /\ k \in 1..Len(sends)
  /\ sends[k].pc = "post"
  /\ sends[k].session_id = Null

\* The send whose startProgressPolling calls got interval handle h.
C28_SendOf(h) == (h + 1) \div 2

\* What an accepted sendUserMessage call does to the poller in the step that
\* issues the chat request: with a current session, the previous timer is
\* cleared, the first progress fetch of that session is issued and a timer
\* of that session is the stored one; with none, the poller is left alone.
C28_StartsIffSession ==
  \A content \in Texts :
    (sendUserMessage(content) /\ SendAccepted(content)) =>
      LET h == IntervalHandle(Len(sends) + 1, 1)
          f == [loop |-> h, sessionId |-> currentSessionId]
      IN  IF currentSessionId # Null
            THEN /\ timers' = {[id |-> h, sessionId |-> currentSessionId]}
                 /\ progressIntervalRef' = h
                 /\ CopiesIn(f, polls') = CopiesIn(f, polls) + 1
                 /\ sends'[Len(sends')].pc = "post"
            ELSE UNCHANGED <<progressIntervalRef, timers, progress, polls>>

C29_Terminal == {"completed", "error"}

\* A poll has observed a terminal status and the loop's timer is the stored one.
C29_TerminalShown == progress \in C29_Terminal /\ progressIntervalRef # 0

\* The step ends an accepted send (its finally block runs).
C29_SendEnds ==
  \E k \in 1..Len(sends) : sends[k].pc # "done" /\ sends'[k].pc = "done"

\* The step is one of the calls of stopProgressPolling the orchestrator makes
\* by name: the finally block of a send, startNewChat, switchSession.
C29_StoppedByName ==
  \/ C29_SendEnds
  \/ startNewChat
  \/ \E sessionId \in SessionIds : switchSession(sessionId)

\* The step is any call of stopProgressPolling: those above, the startNewChat
\* inside removeSession of the current session, and the one every
\* startProgressPolling begins with.
C29_Stopped ==
  \/ C29_StoppedByName
  \/ \E c \in BagToSet(removes) : RemoveDeleted(c) /\ RemovedIsCurrent(c)
  \/ \E content \in Texts :
       sendUserMessage(content) /\ SendAccepted(content) /\ currentSessionId # Null

\* The step is a progress fetch resolving with a status other than not_found.
C29_LaterStatus ==
  \E f \in BagToSet(polls), status \in ProgressStatuses \ {"not_found"} :
    PollDone(f, TRUE, status, "eNetwork")

\* Every live timer can fire and issue a fetch.
C29_TimersTick ==
  \A t \in timers : PollsInFlight < MaxPolls => ENABLED PollTick(t)

\* C29 as stated: once a poll has observed completed or error, the timer
\* stays active and keeps issuing fetches, and the terminal value stays
\* shown, until the send's finally, startNewChat or switchSession calls
\* stopProgressPolling.
C29_TerminalStaysUntilStopped ==
  /\ [](C29_TerminalShown => C29_TimersTick)
  /\ [][(C29_TerminalShown /\ ~C29_StoppedByName) =>
          UNCHANGED <<timers, progressIntervalRef, progress>>]_vars

\* C29: the poller never stops itself. Once a poll has observed completed or
\* error, the timer stays active and keeps issuing fetches until
\* stopProgressPolling is called, and until then the value shown changes only
\* when a later fetch resolves with a status other than not_found, which
\* replaces it.
C29_PollerNeverStopsItself ==
  /\ [](C29_TerminalShown => C29_TimersTick)
  /\ [][(C29_TerminalShown /\ ~C29_Stopped) =>
          /\ UNCHANGED <<timers, progressIntervalRef>>
          /\ progress' # progress => C29_LaterStatus]_vars
  /\ [][(\E f \in BagToSet(polls), status \in ProgressStatuses, ok \in BOOLEAN, e \in OtherErrors :
           PollDone(f, ok, status, e)) \/ (\E t \in timers : PollTick(t)) =>
          UNCHANGED <<timers, progressIntervalRef>>]_vars

\* A terminal status is shown, the timer is live, and the fetch of a later
\* tick is in flight.
C29_Witness ==
  /\ C29_TerminalShown
  /\ \E t \in timers : t.id = progressIntervalRef /\ BagIn([loop |-> t.id, sessionId |-> t.sessionId], polls)
  /\ \E k \in 1..Len(sends) : sends[k].pc = "post"

\* ------------------------------------------------------------------ C30
\* The step is the answer to the GET /api/sessions of a refreshSessions call
\* (made on its own, by a send or by removeSession), and the cached list
\* becomes the fetched one.
C30_Replaced ==
  /\ \/ RefreshDone(TRUE, "eNetwork")
     \/ \E k \in 1..MaxSends : SendRefreshed(k, TRUE, "eNetwork")
     \/ \E c \in BagToSet(removes) : RemoveRefreshed(c, TRUE, "eNetwork")
  /\ sessions' = SessionList(srvSessions)

\* The step is a refreshSessions call made without a token (on its own, by a
\* send whose chat request succeeded, or by removeSession after the
\* deletion), and the cached list becomes empty.
C30_Emptied ==
  /\ ~isAuthenticated
  /\ \/ refreshSessions
     \/ \E k \in 1..Len(sends) :
          sends[k].pc = "post" /\ sends'[k].pc = "done" /\ sends'[k].outcome = "ok"
     \/ \E c \in BagToSet(removes) : RemoveDeleted(c)
  /\ sessions' = <<>>

\* The step is a successful deletion, and the cached list loses the entries
\* of the deleted identifier and nothing else.
C30_Removed ==
  \E c \in BagToSet(removes) :
    /\ RemoveDeleted(c)
    /\ sessions' = SelectSeq(sessions, LAMBDA s : s.id # c.sessionId)

\* The step belongs to one of the operations that leave the list alone: the
\* first part of an accepted send and its failure, switchSession and its
\* continuations, startNewChat, a poll tick or answer, a connection check.
C30_OtherOperation ==
  \/ Len(sends') > Len(sends)
  \/ \E k \in 1..Len(sends) : sends[k].pc = "post" /\ sends'[k].pc = "done" /\ sends'[k].outcome = "failed"
  \/ switches' # switches
  \/ startNewChat
  \/ polls' # polls /\ sends' = sends
  \/ conn' # conn

\* C30: the cached session list changes only in a step of refreshSessions
\* (it becomes the fetched list, or the empty list when there is no token)
\* or by losing a deleted session's identifier; the first part of a send,
\* switchSession, startNewChat, progress polling and connection checks leave
\* it as it is.
C30_SessionsOnlyRefreshed ==
  [][/\ sessions' # sessions => (C30_Replaced \/ C30_Emptied \/ C30_Removed)
     /\ C30_OtherOperation => sessions' = sessions]_vars

\* The list holds two fetched entries after a send created a session, and a
\* connection check and one more call of the hook have run since the mount.
C30_Witness ==
  /\ Len(sessions) = 2
  /\ \E k \in 1..Len(sends) : sends[k].pc = "done" /\ sends[k].outcome = "ok"
  /\ conn.resolved >= 1
  /\ nCalls >= 1

\* ------------------------------------------------------------------ C31
\* The step stores what a login, register or refreshToken response carries.
C31_Stored ==
  \E r \in auth.inflight : r.op \in StoringOps /\ AuthResolve(r)

\* The step is logout() or the response interceptor seeing status 401.
C31_Removed ==
  \/ AuthLogout
  \/ \E r \in auth.inflight : AuthReject(r, "e401")

\* C31: the token and the user profile are stored together and removed
\* together: the token is present iff the user profile is; they are written
\* only by a successful login, register or refreshToken, which writes both,
\* and removed only by logout or a 401 response, which removes both; a call
\* guarded by isAuthenticated() is skipped exactly when no token is stored.
C31_TokenAndUserTogether ==
  /\ [](auth.pc = "run" => (auth.token <=> auth.user))
  /\ [][/\ C31_Stored => auth'.token /\ auth'.user
        /\ C31_Removed => ~auth'.token /\ ~auth'.user
        /\ (auth'.token # auth.token \/ auth'.user # auth.user) => (C31_Stored \/ C31_Removed)
        /\ \A op \in GuardedOps :
             AuthCall(op) => (auth'.last = [event |-> "skipped", op |-> op] <=> ~auth.token)]_vars

\* Two requests have been made and the answer to a token refresh has just
\* stored both items.
C31_Witness ==
  /\ auth.pc = "run"
  /\ auth.token /\ auth.user
  /\ auth.made = 2
  /\ auth.last = [event |-> "resolved", op |-> "refreshToken"]

\* ------------------------------------------------------------------ C32
\* The loop that issued fetch f is the active one: its timer is the stored one.
C32_ActiveLoop(f) ==
  /\ progressIntervalRef = f.loop
  /\ \E t \in timers : t.id = f.loop

\* C32: the answer to a progress fetch changes the visible progress only if
\* the loop that issued the fetch is still the active one; the answer to a
\* fetch of a loop that was stopped or superseded leaves progress as it is.
C32_StaleResponseIgnored ==
  [][\A f \in BagToSet(polls), status \in ProgressStatuses :
       (PollDone(f, TRUE, status, "eNetwork") /\ ~C32_ActiveLoop(f)) =>
         progress' = progress]_vars

\* ------------------------------------------------------------------ C33
\* The conversation is still the one in which send k was issued: the current
\* session is the one the call saw and the list still holds its placeholder.
C33_SameConversation(k) ==
  /\ currentSessionId = sends[k].session_id
  /\ \E i \in 1..Len(messages) : messages[i].send = k /\ messages[i].isStreaming

\* C33: the response of a send changes the conversation only if it is still
\* the one in which the send was issued; when startNewChat or a switchSession
\* has replaced the conversation while the send was in flight, its response
\* leaves currentSessionId, workspacePath and messages as they are.
C33_ResponseOfOldConversationIgnored ==
  [][\A k \in 1..MaxSends, outcomes \in AttemptOutcomes, sid \in SessionIds, wp \in BOOLEAN :
       (/\ k \in 1..Len(sends)
        /\ ~C33_SameConversation(k)
        /\ SendChatSuccess(k, outcomes, sid, IF wp THEN WorkspaceOf[sid] ELSE Null)) =>
         UNCHANGED <<currentSessionId, workspacePath, messages>>]_vars

\* ------------------------------------------------------------------ C34
\* No accepted send is still in flight.
C34_NoSendInFlight == \A k \in 1..Len(sends) : sends[k].pc = "done"

\* C34: every streaming placeholder is resolved or removed by the time its
\* send has ended: when no send is in flight, no message of the list has
\* isStreaming set.
C34_NoPlaceholderLeft ==
  C34_NoSendInFlight => \A i \in 1..Len(messages) : ~messages[i].isStreaming

\* ------------------------------------------------------------------ C35
\* C35: workspacePath is null or the workspace path of the current session.
C35_WorkspaceOfCurrentSession ==
  \/ workspacePath = Null
  \/ currentSessionId # Null /\ workspacePath = WorkspaceOf[currentSessionId]

\* ------------------------------------------------------------------ C36
\* C36: no conversation data crosses a logout: while no user is logged in
\* (from the logout to the next login) the hook holds no message, no current
\* session, no workspace path, no cached session entry and no progress, so
\* that a user who logs in next finds nothing that was loaded for the one
\* before, and no late response or poll of the earlier session writes any.
C36_NothingCrossesLogout ==
  (app.pc = "run" /\ app.user = Null) =>
    /\ messages = <<>>
    /\ sessions = <<>>
    /\ currentSessionId = Null
    /\ workspacePath = Null
    /\ progress = Null

\* ------------------------------------------------------------------ C37
\* How the k-th POST of the call ended.
C37_Outcome(k) == retry.outcomes[k]

\* The k-th POST failed with no response or with status 502, 503 or 504.
C37_FailedRetryably(k) ==
  /\ C37_Outcome(k) # "ok"
  /\ ErrorStatus[C37_Outcome(k)] \in {0, 502, 503, 504}

C38_RefreshFailureIsNotSendFailure ==
  [][\A k \in 1..MaxSends, e \in OtherErrors :
       SendRefreshed(k, FALSE, e) =>
         /\ UNCHANGED <<messages, currentSessionId, workspacePath, error, sessions>>
         /\ sends'[k].pc = "done" /\ sends'[k].outcome = "ok"
         /\ isLoading' = FALSE
         /\ progressIntervalRef' = 0 /\ progress' = Null]_vars

\* The only send has ended as a success in session s2, no error is shown and
\* the finalized answer is the last message, while the cached list, last
\* fetched before the chat response, does not hold s2: the refresh failed.
C38_Witness ==
  /\ Len(sends) = 1 /\ sends[1].pc = "done" /\ sends[1].outcome = "ok"
  /\ token /\ refreshes = 0 /\ nCalls = 0
  /\ currentSessionId = "s2"
  /\ \A i \in 1..Len(sessions) : sessions[i].id # "s2"
  /\ error = Null
  /\ messages # <<>>
  /\ messages[Len(messages)].role = "assistant" /\ ~messages[Len(messages)].isStreaming
  /\ messages[Len(messages)].send = 1

\* ------------------------------------------------------------------ C39
\* The step completes a connection check: the request of one is answered or
\* fails, or one is called with no token stored and returns at once.
C39_CheckCompletes ==
  \/ ConnCheckDone(TRUE, "eNetwork")
  \/ \E e \in CheckErrors : ConnCheckDone(FALSE, e)
  \/ (ConnMount \/ ConnTick) /\ ~isAuthenticated

\* C39: the connection status changes only in a step that completes a
\* connection check; logout, login, and every step of the hook's other
\* operations (401 answers to their requests included) leave it as it is;
\* once it is not 'checking' it never is 'checking' again.
C39_StatusOnlyByChecks ==
  [][/\ conn'.status # conn.status => C39_CheckCompletes
     /\ (handleLogout \/ \E u \in Users : handleLoginSuccess(u)) => conn'.status = conn.status
     /\ token' # token /\ conn'.resolved = conn.resolved => conn'.status = conn.status
     /\ conn.status # "checking" => conn'.status # "checking"]_vars

\* A check made while nobody was logged in recorded 'disconnected'; a user
\* has logged in since and the input is still disabled.
C39_Witness ==
  /\ app.logins = 1 /\ app.user # Null
  /\ token
  /\ conn.last = "unauthenticated"
  /\ conn.status = "disconnected"
  /\ InputDisabled
====
